---- MODULE Spec2Model ----
(***************************************************************************)
(* Model of the WebRTCManager of src/lib/webrtc.ts: the collection of      *)
(* peer sessions, the signaling handlers (offer, answer, ICE candidate),   *)
(* createPeer / removePeer, the pending-candidate buffer and its flush,    *)
(* and the connection-state handler with its restart timer.                *)
(*                                                                         *)
(* Every handler is an async function: it runs synchronously up to an      *)
(* awaited RTCPeerConnection call and resumes when that call settles.      *)
(* A handler invocation in flight is a task (kind, captured locals,        *)
(* position).  The RTCPeerConnection is the external capability; it is     *)
(* modelled by the JSEP signaling state machine and by its operations      *)
(* chain (the calls made on one connection settle in the order they were   *)
(* made).  The signaling socket has an id while it is connected; it is    *)
(* connected throughout, except in SendSpec.                               *)
(*                                                                         *)
(* Spec drives one manager by createPeer / removePeer, the signaling       *)
(* messages, the capability's settlements, connection-state changes and    *)
(* the restart timer; SigSpec drives it by signaling messages alone, with  *)
(* more of them; LifeSpec adds the listeners, the local stream, cleanup    *)
(* and the track and data-channel notifications; DupSpec delivers          *)
(* messages more than once; PairSpec joins two managers by the relay.      *)
(* RestartSpec is Spec with more connection-state notifications; FairSpec  *)
(* is LifeSpec under the event loop's scheduling, with smaller budgets;    *)
(* BusSpec has listeners that subscribe and unsubscribe while they are     *)
(* called; SendSpec lets the socket go down and the connections gather     *)
(* candidates; FrameSpec has two peers and calls that fail; ChatSpec has   *)
(* messages on the channel an initiator created.  RoomSpec joins two       *)
(* managers with their useRoom hooks in a room (join, user-joined, camera, *)
(* init effect); RoomFairSpec is RoomSpec with every call settling and     *)
(* every message delivered.                                                *)
(***************************************************************************)
EXTENDS Integers, Sequences, FiniteSets, TLC

VARIABLES mgr

vars == <<mgr>>

(* ---------------------------- bounds ----------------------------------- *)
MaxSess  == 2   \* RTCPeerConnection objects one manager creates in a run
MaxTasks == 3   \* handler invocations in flight at one manager
\* Spec: the whole manager
MaxMsgs  == 2   \* signaling messages delivered
MaxApi   == 2   \* createPeer / removePeer calls of the application
MaxNotif == 2   \* connection-state notifications
MaxFail  == 1   \* capability calls rejected for a reason outside the model
\* SigSpec: the signaling handlers on their own
SigMsgs  == 4
SigApi   == 1
SigFail  == 1
\* PairSpec: two managers and the relay between them
PairMsgs == 2   \* signaling messages delivered to each manager
PairApi  == 2   \* createPeer / removePeer calls at endpoint "B" (one at "A")
\* LifeSpec: one manager with its listeners, local media and cleanup
LifeMsgs  == 1
LifeApi   == 3
LifeNotif == 2
MaxListeners == 2   \* listeners registered at one time
MaxStreams   == 2   \* local streams handed over in a run
RestartMsgs  == 1   \* messages that arrive in a run of RestartSpec
RestartApi   == 2   \* calls of the application in a run of RestartSpec
RestartNotif == 4   \* notifications of the capability in a run of RestartSpec
BusApi       == 4   \* calls of the application in a run of BusSpec
BusNotif     == 2   \* notifications of the capability in a run of BusSpec
SendMsgs     == 1   \* messages that arrive in a run of SendSpec
SendApi      == 2   \* calls of the application in a run of SendSpec
SendNotif    == 2   \* notifications in a run of SendSpec
FrameMsgs    == 1   \* messages that arrive in a run of FrameSpec
FrameApi     == 3   \* calls of the application in a run of FrameSpec
FrameNotif   == 1   \* notifications in a run of FrameSpec
FrameFail    == 1   \* capability calls that fail in a run of FrameSpec
ChatMsgs     == 1   \* messages that arrive in a run of ChatSpec
ChatApi      == 2   \* calls of the application in a run of ChatSpec
ChatNotif    == 2   \* notifications in a run of ChatSpec
\* RoomSpec: two participants of a room
RoomMsgs     == 2   \* signaling messages delivered to a participant
RoomNotif    == 1   \* connection-state notifications at a participant
FairMsgs     == 1   \* messages that arrive in a run of FairSpec
FairApi      == 2   \* calls of the application in a run of FairSpec
FairNotif    == 2   \* notifications of the capability in a run of FairSpec
\* DupSpec: one manager under at-least-once delivery
DupMsgs  == 5   \* deliveries, redeliveries included

Limits(msgs, api, notif, fail) ==
  [msgs |-> msgs, api |-> api, notif |-> notif, fail |-> fail]

PeerIds == {"p1"}

\* The callbacks an application registers.
AllCallbacks == {"cb1", "cb2"}

NoDesc == <<>>

(* ------------------------- capability (JSEP) --------------------------- *)
\* A description is <<type, author, id>>; NoDesc is null.
Desc(type, by, id) == <<type, by, id>>

NewConnection(peerId, isInitiator) ==
  [ peerId     |-> peerId,
    init       |-> isInitiator,
    sig        |-> "stable",
    cs         |-> "new",
    pendLocal  |-> NoDesc,
    curLocal   |-> NoDesc,
    pendRemote |-> NoDesc,
    curRemote  |-> NoDesc,
    pend       |-> 0,
    dc         |-> IF isInitiator THEN "open" ELSE "none",
    chan       |-> FALSE,
    stream     |-> FALSE,
    senders    |-> <<>>,
    carried    |-> {},
    restarts   |-> 0,
    chain      |-> <<>>,
    log        |-> <<>> ]

\* RTCPeerConnection.remoteDescription: pending, else current.
remoteDescription(c) ==
  IF c.pendRemote # NoDesc THEN c.pendRemote ELSE c.curRemote

\* Whether the capability accepts the operation in the connection's state.
OpValid(c, op, arg) ==
  /\ c.sig # "closed"
  /\ CASE op = "createOffer"  -> TRUE
       [] op = "createAnswer" -> c.sig = "have-remote-offer"
       [] op = "sld" /\ arg[1] = "offer"  -> c.sig \in {"stable", "have-local-offer"}
       [] op = "sld" /\ arg[1] = "answer" -> c.sig = "have-remote-offer"
       [] op = "rollback" -> c.sig \in {"have-local-offer", "have-remote-offer"}
       [] op = "srd" /\ arg[1] = "offer"  ->
            c.sig \in {"stable", "have-remote-offer", "have-local-offer"}
       [] op = "srd" /\ arg[1] = "answer" -> c.sig = "have-local-offer"
       [] op = "add" -> remoteDescription(c) # NoDesc
       [] OTHER -> FALSE

\* The connection after the capability has carried the operation out.
OpApply(c, op, arg) ==
  CASE op = "sld" /\ arg[1] = "offer" ->
         [c EXCEPT !.sig = "have-local-offer", !.pendLocal = arg]
    [] op = "sld" /\ arg[1] = "answer" ->
         [c EXCEPT !.sig = "stable", !.curLocal = arg, !.curRemote = c.pendRemote,
                   !.pendLocal = NoDesc, !.pendRemote = NoDesc]
    [] op = "rollback" ->
         [c EXCEPT !.sig = "stable", !.pendLocal = NoDesc, !.pendRemote = NoDesc]
    [] op = "srd" /\ arg[1] = "offer" ->
         \* an offer applied over an outstanding local offer rolls it back
         [c EXCEPT !.sig = "have-remote-offer", !.pendRemote = arg,
                   !.pendLocal = NoDesc]
    [] op = "srd" /\ arg[1] = "answer" ->
         [c EXCEPT !.sig = "stable", !.curRemote = arg, !.curLocal = c.pendLocal,
                   !.pendLocal = NoDesc, !.pendRemote = NoDesc]
    [] OTHER -> c

\* RTCPeerConnection.close(): both states become closed, no event is fired.
CloseConnection(c) ==
  [c EXCEPT !.sig = "closed", !.cs = "closed"]

(* ------------------------------ tasks ---------------------------------- *)
IdleTask ==
  [ kind |-> "idle", from |-> "", id |-> 0, n |-> 0, pc |-> "", sid |-> 0,
    arr |-> 0, i |-> 0, ans |-> NoDesc ]

TaskIds == 1 .. MaxTasks

FreeTasks(m) == {t \in TaskIds : m.tasks[t].kind = "idle"}

NewTaskId(m) == CHOOSE t \in FreeTasks(m) : \A u \in FreeTasks(m) : t <= u

(* --------------------------- the manager ------------------------------- *)
NewManager(self, peerIds, lim) ==
  [ self   |-> self,
    lim    |-> lim,
    peers  |-> [p \in peerIds |-> 0],
    conns  |-> <<>>,
    arrays |-> <<>>,
    tasks  |-> [t \in TaskIds |-> IdleTask],
    timers |-> <<>>,
    sent   |-> <<>>,
    socketId |-> TRUE,
    made   |-> <<>>,
    events |-> <<>>,
    listeners |-> <<>>,
    react     |-> [cb \in AllCallbacks |-> <<>>],
    snaps     |-> <<>>,
    delivered |-> <<>>,
    localStream |-> 0,
    stopped |-> {},
    steps  |-> <<>>,
    arrived |-> <<>>,
    ids    |-> <<>>,
    got    |-> {},
    calls  |-> <<>>,
    napi   |-> 0,
    nnotif |-> 0,
    nfail  |-> 0 ]

onEvent(m, cb) == [m EXCEPT !.listeners = Append(@, cb)]

\* offEvent removes the first occurrence of the callback, if there is one.
offEvent(m, cb) ==
  LET l == m.listeners
      hits == {i \in 1 .. Len(l) : l[i] = cb}
  IN IF hits = {} THEN m
     ELSE LET k == CHOOSE i \in hits : \A j \in hits : i <= j
          IN [m EXCEPT !.listeners = SubSeq(l, 1, k - 1) \o SubSeq(l, k + 1, Len(l))]

\* What a listener does with the manager while it is being called: nothing,
\* one onEvent or offEvent call, or an offEvent followed by an onEvent.
ListenerOps == {<<op, cb>> : op \in {"on", "off"}, cb \in AllCallbacks}

Reactions ==
  {<<>>} \cup {<<o>> : o \in ListenerOps}
         \cup {<< <<"off", a>>, <<"on", b>> >> : a, b \in AllCallbacks}

ListenerCall(m, op) ==
  IF op[1] = "on" THEN onEvent(m, op[2]) ELSE offEvent(m, op[2])

React(m, ops) ==
  IF Len(ops) = 0 THEN m
  ELSE IF Len(ops) = 1 THEN ListenerCall(m, ops[1])
  ELSE ListenerCall(ListenerCall(m, ops[1]), ops[2])

\* Array.prototype.forEach over this.eventListeners: the indices below the
\* length at the start are visited in order, each read from the array as it
\* is by then; an index the array no longer has is passed over.  A
\* delivery is <<listener, event, number of the emission>>.
RECURSIVE forEach(_, _, _, _, _)
forEach(m, ev, n, k, len) ==
  IF k > len THEN m
  ELSE IF k > Len(m.listeners) THEN forEach(m, ev, n, k + 1, len)
  ELSE LET callback == m.listeners[k]
           called   == [m EXCEPT !.delivered = Append(@, <<callback, ev, n>>)]
       IN forEach(React(called, m.react[callback]), ev, n, k + 1, len)

\* emitEvent calls the registered listeners; m.snaps keeps, as history, the
\* list as it was when the event was emitted.
emitEvent(m, ev) ==
  forEach([m EXCEPT !.events = Append(@, ev), !.snaps = Append(@, m.listeners)],
          ev, Len(m.events) + 1, 1, Len(m.listeners))

\* The statements of removePeer, each recorded in m.steps as it is carried
\* out; m.steps holds the statements of the latest removePeer.
Did(m, step) == [m EXCEPT !.steps = Append(@, step)]

ClosePeer(m, s) == Did([m EXCEPT !.conns[s] = CloseConnection(@)], <<"close", s>>)

CloseChannel(m, s) ==
  IF m.conns[s].dc = "none" THEN m
  ELSE Did([m EXCEPT !.conns[s].dc = "closed"], <<"closeChannel", s>>)

DeletePeer(m, peerId) == Did([m EXCEPT !.peers[peerId] = 0], <<"delete", peerId>>)

EmitRemoved(m, peerId) ==
  Did(emitEvent(m, <<"peerRemoved", peerId>>), <<"emit", peerId>>)

\* removePeer that forgets the entry without closing its connection.
removePeer_noClose(m, peerId) ==
  IF m.peers[peerId] = 0 THEN m
  ELSE EmitRemoved(DeletePeer([m EXCEPT !.steps = <<>>], peerId), peerId)

removePeer(m, peerId) ==
  LET s == m.peers[peerId] IN
  IF s = 0 THEN m
  ELSE EmitRemoved(
         DeletePeer(CloseChannel(ClosePeer([m EXCEPT !.steps = <<>>], s), s), peerId),
         peerId)

(* ------------------- calls on the capability --------------------------- *)
\* Task t makes the call (op, arg) on its connection and awaits it: the call
\* joins the connection's operations chain and is recorded in its call log
\* together with the arrival number of the message whose handler makes it
\* (0 for createPeer).
Await(m, t, task, op, arg) ==
  [m EXCEPT !.tasks[t] = task,
            !.conns[task.sid].chain = Append(@, t),
            !.conns[task.sid].log = Append(@, <<op, arg, task.n>>)]

Finish(m, t) == [m EXCEPT !.tasks[t] = IdleTask]

\* A send that is skipped (as when no socket id is found).
Send_skipped(m, kind, to, payload, by) == m

\* A signaling send, recorded with the arrival number of the message whose
\* handler sends it (0 for createPeer).  It is made when the socket has an id
\* (socketService.getSocketId()), which it has while it is connected.
Send(m, kind, to, payload, by) ==
  IF m.socketId THEN [m EXCEPT !.sent = Append(@, <<kind, to, payload, by>>)]
  ELSE m

\* History: a description that was set as local description, or a candidate
\* that was gathered, for the session of peer `to`.
Produced(m, kind, to, payload) ==
  [m EXCEPT !.made = Append(@, <<kind, to, payload>>)]

(* ----------------------------- local tracks ---------------------------- *)
\* The tracks of the local streams an application hands over, by kind, in
\* getTracks() order; stream 0 is no stream.
StreamKinds(stream) ==
  IF stream % 2 = 1 THEN <<"video">> ELSE <<"audio", "video", "video">>

\* A track is <<kind, stream, position>>.
getTracks(stream) ==
  IF stream = 0 THEN <<>>
  ELSE [i \in 1 .. Len(StreamKinds(stream)) |-> <<StreamKinds(stream)[i], stream, i>>]

\* getSenders().find(s => s.track && s.track.kind === kind): the position of
\* the first sender that carries a track of the kind, 0 when there is none.
\* A sender is the track it carries.
FindSender(senders, kind) ==
  LET hits == {i \in 1 .. Len(senders) : senders[i][1] = kind}
  IN IF hits = {} THEN 0 ELSE CHOOSE i \in hits : \A j \in hits : i <= j

\* The kinds a description created now has a sending track for.
SenderKinds(c) == {c.senders[i][1] : i \in 1 .. Len(c.senders)}

\* createPeer's loop: a track is added when no sender carries its kind.
RECURSIVE AddLocalTracks(_, _)
AddLocalTracks(senders, tracks) ==
  IF tracks = <<>> THEN senders
  ELSE AddLocalTracks(IF FindSender(senders, Head(tracks)[1]) = 0
                      THEN Append(senders, Head(tracks))
                      ELSE senders,
                      Tail(tracks))

\* setLocalStream's inner loop: the sender of the track's kind gets the
\* track by replaceTrack, and addTrack makes a sender when there is none.
\* A replaceTrack that is rejected (ok = FALSE) leaves the sender as it is;
\* the rejection is not awaited and nobody handles it.
RECURSIVE ReplaceOrAdd(_, _, _)
ReplaceOrAdd(senders, tracks, ok) ==
  IF tracks = <<>> THEN senders
  ELSE LET k == FindSender(senders, Head(tracks)[1])
       IN ReplaceOrAdd(IF k = 0 THEN Append(senders, Head(tracks))
                       ELSE IF ok THEN [senders EXCEPT ![k] = Head(tracks)]
                       ELSE senders,
                       Tail(tracks), ok)

(* ------------------------------ createPeer ----------------------------- *)
Healthy(c) == c.sig = "stable" /\ c.cs = "connected"

Stale(c) == c.sig = "closed" \/ c.cs = "failed" \/ c.cs = "disconnected"

\* createPeer returns the existing session without touching anything.
ReturnsExisting(m, peerId) ==
  /\ m.peers[peerId] # 0
  /\ LET c == m.conns[m.peers[peerId]] IN Healthy(c) \/ ~Stale(c)

\* createPeer that replaces whatever session it finds.
createPeer_noReuse(m, peerId, isInitiator, t) ==
  LET m1  == removePeer(m, peerId)
      sid == Len(m1.conns) + 1
      m2  == [m1 EXCEPT !.conns = Append(@, [NewConnection(peerId, isInitiator)
                                               EXCEPT !.senders = AddLocalTracks(@, getTracks(m.localStream))]),
                        !.peers[peerId] = sid]
  IN IF isInitiator
     THEN Await(m2, t,
                [IdleTask EXCEPT !.kind = "create", !.from = peerId,
                                 !.pc = "c_offer", !.sid = sid],
                "createOffer", NoDesc)
     ELSE m2

\* createPeer up to its first await.  Task t carries on with the offer when
\* isInitiator; a non-initiator call has no await and is complete.
createPeer(m, peerId, isInitiator, t) ==
  IF ReturnsExisting(m, peerId) THEN m
  ELSE
    LET m1  == removePeer(m, peerId)
        sid == Len(m1.conns) + 1
        m2  == [m1 EXCEPT !.conns = Append(@, [NewConnection(peerId, isInitiator)
                                                 EXCEPT !.senders = AddLocalTracks(@, getTracks(m.localStream))]),
                          !.peers[peerId] = sid]
    IN IF isInitiator
       THEN Await(m2, t,
                  [IdleTask EXCEPT !.kind = "create", !.from = peerId,
                                   !.pc = "c_offer", !.sid = sid],
                  "createOffer", NoDesc)
       ELSE m2

(* ---------------------------- flushPendingIce -------------------------- *)
NullCand == 0   \* the end-of-candidates sentinel (a falsy candidate)

\* First index from i on that holds a candidate the loop applies.
NextIdx(arr, i) ==
  LET J == {j \in i .. Len(arr) : arr[j] # NullCand}
  IN IF J = {} THEN Len(arr) + 1 ELSE CHOOSE j \in J : \A k \in J : j <= k

\* peer.pendingCandidates = []  (a fresh array object)
ResetPending(m, sid) ==
  [m EXCEPT !.arrays = Append(@, <<>>), !.conns[sid].pend = Len(m.arrays) + 1]

\* What the offer handler does once flushPendingIce has returned.
OfferCatch(m, task) ==
  IF m.peers[task.from] # 0 THEN removePeer(m, task.from) ELSE m

AfterFlush(m, t, task) ==
  IF task.kind = "offer"
  THEN IF m.conns[task.sid].sig = "closed"
       THEN Finish(OfferCatch(m, task), t)   \* createAnswer rejects at once
       ELSE Await(m, t, [task EXCEPT !.pc = "o_ans", !.arr = 0, !.i = 0],
                  "createAnswer", NoDesc)
  ELSE Finish(m, t)

\* The for-of loop of flushPendingIce from position i of the array object
\* the loop iterates (task.arr), up to its next await.
FlushFrom(m, t, task, i) ==
  LET arr == m.arrays[task.arr]
      j   == NextIdx(arr, i)
  IN IF j > Len(arr) \/ m.conns[task.sid].sig = "closed"
     THEN AfterFlush(ResetPending(m, task.sid), t, task)
     ELSE Await(m, t,
                [task EXCEPT !.pc = IF task.kind = "offer" THEN "o_flush" ELSE "a_flush",
                             !.i = j],
                "add", arr[j])

flushPendingIce(m, t, task) ==
  LET p == m.conns[task.sid].pend IN
  IF p = 0 \/ Len(m.arrays[p]) = 0
  THEN AfterFlush(m, t, task)
  ELSE FlushFrom(m, t, [task EXCEPT !.arr = p], 1)

(* ------------------------- signaling handlers -------------------------- *)
\* onWebRTCOffer up to its first await.
onWebRTCOffer(m, from, id, n, t) ==
  LET m1   == IF m.peers[from] = 0 THEN createPeer(m, from, FALSE, t) ELSE m
      sid  == m1.peers[from]
      task == [IdleTask EXCEPT !.kind = "offer", !.from = from, !.id = id,
                               !.n = n, !.sid = sid]
      c    == m1.conns[sid]
  IN IF c.sig # "stable" /\ c.sig = "have-local-offer"
     THEN Await(m1, t, [task EXCEPT !.pc = "o_rb"], "rollback", NoDesc)
     ELSE Await(m1, t, [task EXCEPT !.pc = "o_srd"], "srd", Desc("offer", from, id))

\* An answer handler that ignores the answer.
onWebRTCAnswer_ignored(m, from, id, n, t) == m

\* onWebRTCAnswer up to its first await.
onWebRTCAnswer(m, from, id, n, t) ==
  LET sid == m.peers[from] IN
  IF sid = 0 THEN m
  ELSE Await(m, t,
             [IdleTask EXCEPT !.kind = "answer", !.from = from, !.id = id, !.n = n,
                              !.sid = sid, !.pc = "a_srd"],
             "srd", Desc("answer", from, id))

\* onWebRTCIceCandidate that keeps the candidate of a peer without a session.
onWebRTCIceCandidate_keepsOrphan(m, from, cand, n, t) ==
  LET sid == m.peers[from] IN
  IF sid = 0 THEN [m EXCEPT !.arrays = Append(@, <<cand>>)]
  ELSE IF remoteDescription(m.conns[sid]) = NoDesc
       THEN LET p  == m.conns[sid].pend
                m1 == IF p = 0
                      THEN [m EXCEPT !.arrays = Append(@, <<>>),
                                     !.conns[sid].pend = Len(m.arrays) + 1]
                      ELSE m
            IN [m1 EXCEPT !.arrays[m1.conns[sid].pend] = Append(@, cand)]
       ELSE Await(m, t,
                  [IdleTask EXCEPT !.kind = "cand", !.from = from, !.id = cand, !.n = n,
                                   !.sid = sid, !.pc = "k_add"],
                  "add", cand)

\* onWebRTCIceCandidate up to its first await.
onWebRTCIceCandidate(m, from, cand, n, t) ==
  LET sid == m.peers[from] IN
  IF sid = 0 THEN m
  ELSE IF remoteDescription(m.conns[sid]) = NoDesc
       THEN LET p  == m.conns[sid].pend
                m1 == IF p = 0
                      THEN [m EXCEPT !.arrays = Append(@, <<>>),
                                     !.conns[sid].pend = Len(m.arrays) + 1]
                      ELSE m
            IN [m1 EXCEPT !.arrays[m1.conns[sid].pend] = Append(@, cand)]
       ELSE Await(m, t,
                  [IdleTask EXCEPT !.kind = "cand", !.from = from, !.id = cand, !.n = n,
                                   !.sid = sid, !.pc = "k_add"],
                  "add", cand)

(* --------------- resuming a handler after an awaited call -------------- *)
\* The call a task is waiting for.
OpOf(m, task) ==
  CASE task.pc = "c_offer" -> <<"createOffer", NoDesc>>
    [] task.pc = "c_sld"   -> <<"sld", Desc("offer", m.self, task.sid)>>
    [] task.pc = "o_rb"    -> <<"rollback", NoDesc>>
    [] task.pc = "o_srd"   -> <<"srd", Desc("offer", task.from, task.id)>>
    [] task.pc = "o_ans"   -> <<"createAnswer", NoDesc>>
    [] task.pc = "o_sla"   -> <<"sld", task.ans>>
    [] task.pc = "a_srd"   -> <<"srd", Desc("answer", task.from, task.id)>>
    [] task.pc \in {"o_flush", "a_flush"} -> <<"add", m.arrays[task.arr][task.i]>>
    [] task.pc = "k_add"   -> <<"add", task.id>>

\* The awaited call resolved: the handler runs on to its next await or end.
Resolved(m, t, task) ==
  CASE task.pc = "c_offer" ->
         Await([m EXCEPT !.conns[task.sid].carried = SenderKinds(m.conns[task.sid])],
               t, [task EXCEPT !.pc = "c_sld"],
               "sld", Desc("offer", m.self, task.sid))
    [] task.pc = "c_sld" ->
         Finish(Send(Produced(m, "offer", task.from, Desc("offer", m.self, task.sid)),
                     "offer", task.from, Desc("offer", m.self, task.sid), 0), t)
    [] task.pc = "o_rb" ->
         Await(m, t, [task EXCEPT !.pc = "o_srd"],
               "srd", Desc("offer", task.from, task.id))
    [] task.pc = "o_srd" -> flushPendingIce(m, t, task)
    [] task.pc = "o_ans" ->
         LET answer == Desc("answer", m.self, m.conns[task.sid].pendRemote[3])
         IN Await(m, t, [task EXCEPT !.pc = "o_sla", !.ans = answer],
                  "sld", answer)
    [] task.pc = "o_sla" ->
         Finish(Send(Produced(m, "answer", task.from, task.ans),
                     "answer", task.from, task.ans, task.n), t)
    [] task.pc = "a_srd" -> flushPendingIce(m, t, task)
    [] task.pc \in {"o_flush", "a_flush"} -> FlushFrom(m, t, task, task.i + 1)
    [] task.pc = "k_add" -> Finish(m, t)

\* Rejected with a flush that ends at the first candidate that fails.
Rejected_flushAborts(m, t, task) ==
  CASE task.pc \in {"c_offer", "c_sld"} -> Finish(removePeer(m, task.from), t)
    [] task.pc = "o_rb" -> Finish(m, t)
    [] task.pc \in {"o_srd", "o_ans", "o_sla"} -> Finish(OfferCatch(m, task), t)
    [] task.pc = "a_srd" -> Finish(m, t)
    [] task.pc \in {"o_flush", "a_flush"} -> Finish(m, t)
    [] task.pc = "k_add" -> Finish(m, t)

\* The awaited call rejected: the handler's catch block.
Rejected(m, t, task) ==
  CASE task.pc \in {"c_offer", "c_sld"} -> Finish(removePeer(m, task.from), t)
    [] task.pc = "o_rb" -> Finish(m, t)
    [] task.pc \in {"o_srd", "o_ans", "o_sla"} -> Finish(OfferCatch(m, task), t)
    [] task.pc = "a_srd" -> Finish(m, t)
    [] task.pc \in {"o_flush", "a_flush"} -> FlushFrom(m, t, task, task.i + 1)
    [] task.pc = "k_add" -> Finish(m, t)

\* restartIce that does not look at the signaling state.
restartIce_anyState(m, peerId) ==
  LET sid == m.peers[peerId] IN
  IF sid # 0
  THEN [m EXCEPT !.conns[sid].restarts = @ + 1]
  ELSE m

\* restartIce(peerId), called when the restart timer fires.
restartIce(m, peerId) ==
  LET sid == m.peers[peerId] IN
  IF sid # 0 /\ m.conns[sid].sig = "stable"
  THEN [m EXCEPT !.conns[sid].restarts = @ + 1]
  ELSE m

\* A pending setTimeout of connection sid.  `recovered` is history: the
\* connection has been connected since the timer was set.
Timer(sid) == [sid |-> sid, recovered |-> FALSE]

\* connection.onconnectionstatechange for connection sid, state already set.
onconnectionstatechange(m, sid) ==
  LET c == m.conns[sid] IN
  IF c.cs = "failed" \/ c.cs = "disconnected"
  THEN [m EXCEPT !.timers = Append(@, Timer(sid))]
  ELSE IF c.cs = "closed" THEN removePeer(m, c.peerId) ELSE m

\* The callback of the setTimeout(..., 2000) of onconnectionstatechange.
RestartTimeout(m, sid) ==
  LET c == m.conns[sid] IN
  IF c.cs = "disconnected" \/ c.cs = "failed"
  THEN restartIce(m, c.peerId)
  ELSE m

\* connection.onicecandidate of connection sid with a candidate: it is sent
\* to the peer the connection was created for.
onicecandidate(m, sid) ==
  LET candidate == <<"local", sid, Len(m.made) + 1>>
      peerId    == m.conns[sid].peerId
  IN Send(Produced(m, "candidate", peerId, candidate), "candidate", peerId, candidate, 0)

(* ------------------ listeners, local media, cleanup -------------------- *)
InCollection(m) == {m.peers[p] : p \in DOMAIN m.peers} \ {0}

\* The sweep that ends at the first connection whose replaceTrack fails.
sweep_stopsAtFailure(m, stream, failing) ==
  [m EXCEPT !.localStream = stream,
            !.conns = [s \in 1 .. Len(m.conns) |->
                         IF s \in InCollection(m) /\ \A f \in failing : s < f
                         THEN [m.conns[s] EXCEPT
                                 !.senders = ReplaceOrAdd(@, getTracks(stream), TRUE)]
                         ELSE m.conns[s]]]

\* The body of setLocalStream; `failing` are the connections of the
\* collection whose replaceTrack is rejected.
sweep(m, stream, failing) ==
  [m EXCEPT !.localStream = stream,
            !.conns = [s \in 1 .. Len(m.conns) |->
                         IF s \in InCollection(m)
                         THEN [m.conns[s] EXCEPT
                                 !.senders = ReplaceOrAdd(@, getTracks(stream),
                                                          s \notin failing)]
                         ELSE m.conns[s]]]

\* setLocalStream that adds every track of the stream to every connection.
setLocalStream_addsEveryTrack(m, stream) ==
  [m EXCEPT !.localStream = stream,
            !.conns = [s \in 1 .. Len(m.conns) |->
                         IF s \in InCollection(m)
                         THEN [m.conns[s] EXCEPT !.senders = @ \o getTracks(stream)]
                         ELSE m.conns[s]]]

\* setLocalStream keeps the stream and hands its tracks to the connection
\* of every peer of the collection: by replaceTrack to the sender of the
\* track's kind, by addTrack when there is none.
setLocalStream(m, stream) == sweep(m, stream, {})

\* cleanup that takes the peers down by removePeer and keeps the map's keys:
\* it emits peerRemoved for every key, whether or not a session is left.
cleanup_emitsPerKey(m) ==
  LET m1 == [m EXCEPT !.conns = [s \in 1 .. Len(m.conns) |->
                                   IF s \in InCollection(m)
                                   THEN [CloseConnection(m.conns[s]) EXCEPT
                                           !.dc = IF @ = "none" THEN "none" ELSE "closed"]
                                   ELSE m.conns[s]],
                       !.stopped = IF m.localStream = 0 THEN @
                                   ELSE @ \cup {m.localStream},
                       !.peers = [p \in DOMAIN m.peers |-> 0]]
      p  == CHOOSE q \in DOMAIN m.peers : TRUE
  IN [emitEvent(m1, <<"peerRemoved", p>>) EXCEPT !.listeners = <<>>]

\* cleanup closes every connection and data channel of the collection,
\* stops the tracks of the local stream, empties the collection and drops
\* the listeners.  It emits nothing and keeps this.localStream.
cleanup(m) ==
  [m EXCEPT !.conns = [s \in 1 .. Len(m.conns) |->
                         IF s \in InCollection(m)
                         THEN [CloseConnection(m.conns[s]) EXCEPT
                                 !.dc = IF @ = "none" THEN "none" ELSE "closed"]
                         ELSE m.conns[s]],
            !.stopped = IF m.localStream = 0 THEN @ ELSE @ \cup {m.localStream},
            !.peers = [p \in DOMAIN m.peers |-> 0],
            !.listeners = <<>>]

\* connection.ontrack of connection sid: the entry found under the peerId
\* gets the stream and a stream event is emitted; nothing when no entry.
ontrack(m, sid) ==
  LET peerId == m.conns[sid].peerId
      s == m.peers[peerId]
  IN IF s = 0 THEN m
     ELSE emitEvent([m EXCEPT !.conns[s].stream = TRUE], <<"stream", peerId>>)

\* connection.ondatachannel of connection sid: the received channel gets
\* its handlers and is stored in the entry found under the peerId.
ondatachannel(m, sid) ==
  LET peerId == m.conns[sid].peerId
      s == m.peers[peerId]
      m1 == [m EXCEPT !.conns[sid].chan = TRUE]
  IN IF s = 0 THEN m1 ELSE [m1 EXCEPT !.conns[s].dc = "open"]

\* channel.onmessage of the channel connection sid received: a message that
\* parses is emitted as a chat event, one that does not is logged.
onmessage(m, sid, wellFormed) ==
  IF wellFormed THEN emitEvent(m, <<"chat", m.conns[sid].peerId>>) ELSE m

(* ============================ one manager ============================== *)
Self == "A"

\* mgr maps each endpoint of the run to its WebRTCManager.
Step(e, m) == mgr' = [mgr EXCEPT ![e] = m]

Init == mgr = [e \in {Self} |->
                 NewManager(e, PeerIds, Limits(MaxMsgs, MaxApi, MaxNotif, MaxFail))]

\* The application calls createPeer(peerId, isInitiator).
CreatePeerCall(e, peerId, isInitiator) ==
  /\ mgr[e].napi < mgr[e].lim.api
  /\ ReturnsExisting(mgr[e], peerId) \/ Len(mgr[e].conns) < MaxSess
  /\ FreeTasks(mgr[e]) # {}
  /\ Step(e, [createPeer(mgr[e], peerId, isInitiator, NewTaskId(mgr[e]))
                EXCEPT !.napi = @ + 1,
                       !.calls = Append(@, <<"createPeer", peerId, isInitiator,
                                             ReturnsExisting(mgr[e], peerId)>>)])

\* The application calls removePeer(peerId) (a user-left notification).
RemovePeerCall(e, peerId) ==
  /\ mgr[e].napi < mgr[e].lim.api
  /\ Step(e, [removePeer(mgr[e], peerId)
                EXCEPT !.napi = @ + 1,
                       !.calls = Append(@, <<"removePeer", peerId,
                                             mgr[e].peers[peerId] # 0>>)])

\* A webrtc-offer message arrives from peer `from`.
DeliverOffer(e, from) ==
  /\ Len(mgr[e].arrived) < mgr[e].lim.msgs
  /\ mgr[e].peers[from] # 0 \/ Len(mgr[e].conns) < MaxSess
  /\ FreeTasks(mgr[e]) # {}
  /\ LET n == Len(mgr[e].arrived) + 1
     IN Step(e, onWebRTCOffer([mgr[e] EXCEPT !.arrived = Append(@, <<"offer", from>>),
                          !.ids = Append(@, n)],
                              from, n, n, NewTaskId(mgr[e])))

\* A webrtc-answer message arrives from peer `from`.
DeliverAnswer(e, from) ==
  /\ Len(mgr[e].arrived) < mgr[e].lim.msgs
  /\ FreeTasks(mgr[e]) # {}
  /\ LET n == Len(mgr[e].arrived) + 1
     IN Step(e, onWebRTCAnswer([mgr[e] EXCEPT !.arrived = Append(@, <<"answer", from>>),
                          !.ids = Append(@, n)],
                               from, n, n, NewTaskId(mgr[e])))

\* A webrtc-ice-candidate message arrives from peer `from`.
DeliverCandidate(e, from) ==
  /\ Len(mgr[e].arrived) < mgr[e].lim.msgs
  /\ FreeTasks(mgr[e]) # {}
  /\ LET n == Len(mgr[e].arrived) + 1
     IN Step(e, onWebRTCIceCandidate(
                  [mgr[e] EXCEPT !.arrived = Append(@, <<"candidate", from>>),
                          !.ids = Append(@, n)],
                  from, n, n, NewTaskId(mgr[e])))

PopChain(m, sid) == [m EXCEPT !.conns[sid].chain = Tail(@)]

AtHead(m, t) ==
  /\ m.tasks[t].kind # "idle"
  /\ m.conns[m.tasks[t].sid].chain # <<>>
  /\ Head(m.conns[m.tasks[t].sid].chain) = t

\* The capability carries out the call task t awaits and resolves it.
Resolve(e, t) ==
  /\ AtHead(mgr[e], t)
  /\ LET task == mgr[e].tasks[t]
         op   == OpOf(mgr[e], task)
         c    == mgr[e].conns[task.sid]
     IN /\ OpValid(c, op[1], op[2])
        /\ Step(e, Resolved([PopChain(mgr[e], task.sid) EXCEPT
                               !.conns[task.sid] = OpApply(@, op[1], op[2])],
                            t, task))

\* The capability rejects the call task t awaits: the connection's state
\* does not admit it, or it fails for a reason of its own.
Reject(e, t) ==
  /\ AtHead(mgr[e], t)
  /\ LET task == mgr[e].tasks[t]
         op   == OpOf(mgr[e], task)
         c    == mgr[e].conns[task.sid]
     IN \/ /\ ~OpValid(c, op[1], op[2])
           /\ Step(e, Rejected(PopChain(mgr[e], task.sid), t, task))
        \/ /\ OpValid(c, op[1], op[2])
           /\ mgr[e].nfail < mgr[e].lim.fail
           /\ Step(e, Rejected([PopChain(mgr[e], task.sid) EXCEPT !.nfail = @ + 1],
                               t, task))

\* A call pending on a connection that was closed never settles.
Abandon(e, t) ==
  /\ AtHead(mgr[e], t)
  /\ mgr[e].conns[mgr[e].tasks[t].sid].sig = "closed"
  /\ Step(e, Finish(PopChain(mgr[e], mgr[e].tasks[t].sid), t))

ConnStates == {"connecting", "connected", "disconnected", "failed"}

\* The pending timers after connection sid reported `state`.
Recovered(timers, sid, state) ==
  [i \in 1 .. Len(timers) |->
     IF timers[i].sid = sid /\ state = "connected"
     THEN [timers[i] EXCEPT !.recovered = TRUE] ELSE timers[i]]

\* The capability reports a new connection state of an open connection.
ConnectionStateChange(e, sid, state) ==
  /\ mgr[e].nnotif < mgr[e].lim.notif
  /\ sid \in 1 .. Len(mgr[e].conns)
  /\ mgr[e].conns[sid].cs \notin {"closed", state}
  /\ Step(e, onconnectionstatechange(
               [mgr[e] EXCEPT !.conns[sid].cs = state, !.nnotif = @ + 1,
                              !.timers = Recovered(@, sid, state)], sid))

\* The oldest restart timer fires.
TimerFires(e) ==
  /\ mgr[e].timers # <<>>
  /\ Step(e, RestartTimeout([mgr[e] EXCEPT !.timers = Tail(@)],
                            Head(mgr[e].timers).sid))

Next ==
  \/ \E p \in PeerIds, b \in BOOLEAN : CreatePeerCall(Self, p, b)
  \/ \E p \in PeerIds : RemovePeerCall(Self, p)
  \/ \E p \in PeerIds : DeliverOffer(Self, p)
  \/ \E p \in PeerIds : DeliverAnswer(Self, p)
  \/ \E p \in PeerIds : DeliverCandidate(Self, p)
  \/ \E t \in TaskIds : Resolve(Self, t)
  \/ \E t \in TaskIds : Reject(Self, t)
  \/ \E t \in TaskIds : Abandon(Self, t)
  \/ \E s \in 1 .. MaxSess, st \in ConnStates : ConnectionStateChange(Self, s, st)
  \/ TimerFires(Self)

Spec == Init /\ [][Next]_vars

\* An open connection that has a local description gathers a candidate.
OnIceCandidate(e, sid) ==
  /\ mgr[e].nnotif < mgr[e].lim.notif
  /\ sid \in 1 .. Len(mgr[e].conns)
  /\ mgr[e].conns[sid].sig # "closed"
  /\ mgr[e].conns[sid].pendLocal # NoDesc \/ mgr[e].conns[sid].curLocal # NoDesc
  /\ Step(e, [onicecandidate(mgr[e], sid) EXCEPT !.nnotif = @ + 1])

\* The signaling socket loses its connection, or gets it back.
SocketChange(e) ==
  /\ mgr[e].nnotif < mgr[e].lim.notif
  /\ Step(e, [mgr[e] EXCEPT !.socketId = ~@, !.nnotif = @ + 1])

\* The manager with its signaling socket: the socket goes down and comes
\* back, and the connections gather candidates.
SendInit == mgr = [e \in {Self} |->
                     NewManager(e, PeerIds, Limits(SendMsgs, SendApi, SendNotif, 0))]

SendNext ==
  \/ Next
  \/ \E s \in 1 .. MaxSess : OnIceCandidate(Self, s)
  \/ SocketChange(Self)

SendSpec == SendInit /\ [][SendNext]_vars

\* The same manager with more notifications of the capability, for the
\* restart timers.
RestartInit == mgr = [e \in {Self} |->
                        NewManager(e, PeerIds,
                                   Limits(RestartMsgs, RestartApi, RestartNotif, 0))]

RestartSpec == RestartInit /\ [][Next]_vars

(* ============================ the lifecycle ============================ *)
Callbacks == {"cb1"}

\* The application registers a listener.
OnEventCall(e, cb) ==
  /\ mgr[e].napi < mgr[e].lim.api
  /\ Len(mgr[e].listeners) < MaxListeners
  /\ Step(e, [onEvent(mgr[e], cb) EXCEPT !.napi = @ + 1,
                                         !.calls = Append(@, <<"onEvent", cb>>)])

\* The application removes a listener.
OffEventCall(e, cb) ==
  /\ mgr[e].napi < mgr[e].lim.api
  /\ Step(e, [offEvent(mgr[e], cb) EXCEPT !.napi = @ + 1,
                                          !.calls = Append(@, <<"offEvent", cb>>)])

\* The application hands over a local stream whose tracks are live.
SetLocalStreamCall(e, stream) ==
  /\ mgr[e].napi < mgr[e].lim.api
  /\ stream \notin mgr[e].stopped
  /\ Step(e, [setLocalStream(mgr[e], stream)
                EXCEPT !.napi = @ + 1,
                       !.calls = Append(@, <<"setLocalStream", stream>>)])

\* The application calls cleanup().
CleanupCall(e) ==
  /\ mgr[e].napi < mgr[e].lim.api
  /\ Step(e, [cleanup(mgr[e]) EXCEPT !.napi = @ + 1,
                                     !.calls = Append(@, <<"cleanup">>)])

\* An open connection reports a remote track.
OnTrack(e, sid) ==
  /\ mgr[e].nnotif < mgr[e].lim.notif
  /\ sid \in 1 .. Len(mgr[e].conns)
  /\ mgr[e].conns[sid].sig # "closed"
  /\ remoteDescription(mgr[e].conns[sid]) # NoDesc
  /\ Step(e, [ontrack(mgr[e], sid) EXCEPT !.nnotif = @ + 1])

\* An open connection reports a data channel the remote side opened.
OnDataChannel(e, sid) ==
  /\ mgr[e].nnotif < mgr[e].lim.notif
  /\ sid \in 1 .. Len(mgr[e].conns)
  /\ mgr[e].conns[sid].sig # "closed"
  /\ ~mgr[e].conns[sid].chan
  /\ Step(e, [ondatachannel(mgr[e], sid) EXCEPT !.nnotif = @ + 1])

\* A message arrives on the channel an open connection received.
OnMessage(e, sid, wellFormed) ==
  /\ mgr[e].nnotif < mgr[e].lim.notif
  /\ sid \in 1 .. Len(mgr[e].conns)
  /\ mgr[e].conns[sid].sig # "closed"
  /\ mgr[e].conns[sid].chan
  /\ Step(e, [onmessage(mgr[e], sid, wellFormed) EXCEPT !.nnotif = @ + 1])

LifeInit == mgr = [e \in {Self} |->
                     NewManager(e, PeerIds, Limits(LifeMsgs, LifeApi, LifeNotif, 0))]

LifeNext ==
  \/ \E p \in PeerIds, b \in BOOLEAN : CreatePeerCall(Self, p, b)
  \/ \E p \in PeerIds : RemovePeerCall(Self, p)
  \/ \E cb \in Callbacks : OnEventCall(Self, cb)
  \/ \E cb \in Callbacks : OffEventCall(Self, cb)
  \/ \E k \in 1 .. MaxStreams : SetLocalStreamCall(Self, k)
  \/ CleanupCall(Self)
  \/ \E p \in PeerIds : DeliverOffer(Self, p)
  \/ \E p \in PeerIds : DeliverAnswer(Self, p)
  \/ \E p \in PeerIds : DeliverCandidate(Self, p)
  \/ \E t \in TaskIds : Resolve(Self, t)
  \/ \E t \in TaskIds : Reject(Self, t)
  \/ \E t \in TaskIds : Abandon(Self, t)
  \/ \E s \in 1 .. MaxSess, st \in ConnStates : ConnectionStateChange(Self, s, st)
  \/ TimerFires(Self)
  \/ \E s \in 1 .. MaxSess : OnTrack(Self, s)
  \/ \E s \in 1 .. MaxSess : OnDataChannel(Self, s)
  \/ \E s \in 1 .. MaxSess, ok \in BOOLEAN : OnMessage(Self, s, ok)

LifeSpec == LifeInit /\ [][LifeNext]_vars

\* The event bus: listeners that call onEvent and offEvent while they are
\* being called, each in a way of its own that is fixed for the run.
BusInit ==
  \E r \in [AllCallbacks -> Reactions] :
     mgr = [e \in {Self} |->
              [NewManager(e, PeerIds, Limits(0, BusApi, BusNotif, 0))
                 EXCEPT !.react = r]]

BusNext ==
  \/ \E p \in PeerIds : CreatePeerCall(Self, p, FALSE)
  \/ \E p \in PeerIds : RemovePeerCall(Self, p)
  \/ \E cb \in AllCallbacks : OnEventCall(Self, cb)
  \/ \E cb \in AllCallbacks : OffEventCall(Self, cb)
  \/ \E s \in 1 .. MaxSess : OnDataChannel(Self, s)
  \/ \E s \in 1 .. MaxSess, ok \in BOOLEAN : OnMessage(Self, s, ok)

BusSpec == BusInit /\ [][BusNext]_vars

\* The application hands over a local stream and replaceTrack is rejected on
\* the connections `failing`, each of which has a sender to replace.
SetLocalStreamFails(e, stream, failing) ==
  /\ mgr[e].napi < mgr[e].lim.api
  /\ mgr[e].nfail < mgr[e].lim.fail
  /\ stream \notin mgr[e].stopped
  /\ failing # {}
  /\ failing \subseteq InCollection(mgr[e])
  /\ \A s \in failing :
        SenderKinds(mgr[e].conns[s]) \cap {getTracks(stream)[i][1] :
                                           i \in 1 .. Len(getTracks(stream))} # {}
  /\ Step(e, [sweep(mgr[e], stream, failing)
                EXCEPT !.napi = @ + 1, !.nfail = @ + 1,
                       !.calls = Append(@, <<"setLocalStream", stream, failing>>)])

\* The oldest restart timer fires and connection.restartIce() throws: the
\* catch block of restartIce logs the error.
RestartFails(e) ==
  /\ mgr[e].timers # <<>>
  /\ mgr[e].nfail < mgr[e].lim.fail
  /\ LET c == mgr[e].conns[Head(mgr[e].timers).sid]
     IN /\ c.cs \in {"disconnected", "failed"}
        /\ mgr[e].peers[c.peerId] # 0
        /\ mgr[e].conns[mgr[e].peers[c.peerId]].sig = "stable"
  /\ Step(e, [mgr[e] EXCEPT !.timers = Tail(@), !.nfail = @ + 1])

\* A manager with two peers, whose capability calls fail.
TwoPeers == {"p1", "p2"}

FrameInit == mgr = [e \in {Self} |->
                      NewManager(e, TwoPeers,
                                 Limits(FrameMsgs, FrameApi, FrameNotif, FrameFail))]

FrameNext ==
  \/ \E p \in TwoPeers, b \in BOOLEAN : CreatePeerCall(Self, p, b)
  \/ \E k \in 1 .. MaxStreams : SetLocalStreamCall(Self, k)
  \/ \E k \in 1 .. MaxStreams, f \in SUBSET (1 .. MaxSess) : SetLocalStreamFails(Self, k, f)
  \/ \E p \in TwoPeers : DeliverOffer(Self, p)
  \/ \E p \in TwoPeers : DeliverAnswer(Self, p)
  \/ \E p \in TwoPeers : DeliverCandidate(Self, p)
  \/ \E t \in TaskIds : Resolve(Self, t)
  \/ \E t \in TaskIds : Reject(Self, t)
  \/ \E t \in TaskIds : Abandon(Self, t)
  \/ \E s \in 1 .. MaxSess, st \in {"connected", "disconnected"} :
        ConnectionStateChange(Self, s, st)
  \/ TimerFires(Self)
  \/ RestartFails(Self)

FrameSpec == FrameInit /\ [][FrameNext]_vars

\* A message arrives on the channel createPeer made for an initiator
\* session, once the session is negotiated and connected.  createPeer gives that channel no onmessage handler
\* (setupDataChannel is called for received channels only), so nothing runs.
OnLocalMessage(e, sid, wellFormed) ==
  /\ mgr[e].nnotif < mgr[e].lim.notif
  /\ sid \in 1 .. Len(mgr[e].conns)
  /\ mgr[e].conns[sid].sig # "closed"
  /\ mgr[e].conns[sid].init
  /\ mgr[e].conns[sid].cs = "connected"
  /\ mgr[e].conns[sid].curLocal # NoDesc
  /\ mgr[e].conns[sid].curRemote # NoDesc
  /\ Step(e, [mgr[e] EXCEPT !.nnotif = @ + 1])

\* The manager with the messages of both kinds of data channel.
ChatInit == mgr = [e \in {Self} |->
                     NewManager(e, PeerIds, Limits(ChatMsgs, ChatApi, ChatNotif, 0))]

ChatNext ==
  \/ LifeNext
  \/ \E s \in 1 .. MaxSess, ok \in BOOLEAN : OnLocalMessage(Self, s, ok)

ChatSpec == ChatInit /\ [][ChatNext]_vars

\* The same manager under the scheduling the event loop gives it: a call
\* pending at the head of a connection's chain settles and a timer that was
\* set fires.  Calls of the application, messages and notifications of the
\* capability are under no obligation.
Settles == \E t \in TaskIds : Resolve(Self, t) \/ Reject(Self, t) \/ Abandon(Self, t)

FairInit == mgr = [e \in {Self} |->
                     NewManager(e, PeerIds, Limits(FairMsgs, FairApi, FairNotif, 0))]

FairSpec == FairInit /\ [][LifeNext]_vars
              /\ WF_vars(Settles) /\ WF_vars(TimerFires(Self))

(* ======================= the signaling handlers ======================== *)
\* The same manager driven by signaling messages and by the one createPeer
\* call that opens a negotiation; more messages than under Spec.
SigInit == mgr = [e \in {Self} |->
                    NewManager(e, PeerIds, Limits(SigMsgs, SigApi, 0, SigFail))]

SigNext ==
  \/ \E p \in PeerIds, b \in BOOLEAN : CreatePeerCall(Self, p, b)
  \/ \E p \in PeerIds : DeliverOffer(Self, p)
  \/ \E p \in PeerIds : DeliverAnswer(Self, p)
  \/ \E p \in PeerIds : DeliverCandidate(Self, p)
  \/ \E t \in TaskIds : Resolve(Self, t)
  \/ \E t \in TaskIds : Reject(Self, t)

SigSpec == SigInit /\ [][SigNext]_vars

(* ============================ two endpoints ============================ *)
\* Two managers joined by the signaling relay: what one sends to the other
\* is delivered to the other, each message once, in any order.
Endpoints == {"A", "B"}

Far(e) == IF e = "A" THEN "B" ELSE "A"

PairInit == mgr = [e \in Endpoints |->
                     NewManager(e, {Far(e)},
                                Limits(PairMsgs, IF e = "A" THEN 1 ELSE PairApi, 0, 0))]

\* The messages endpoint e has sent that the relay has yet to deliver.
InFlight(e, kind) ==
  {k \in 1 .. Len(mgr[e].sent) :
     /\ mgr[e].sent[k][1] = kind
     /\ mgr[e].sent[k][2] = Far(e)
     /\ k \notin mgr[Far(e)].got}

\* The relay delivers offer k of the far endpoint to e.
RelayOffer(e, k) ==
  /\ k \in InFlight(Far(e), "offer")
  /\ Len(mgr[e].arrived) < mgr[e].lim.msgs
  /\ mgr[e].peers[Far(e)] # 0 \/ Len(mgr[e].conns) < MaxSess
  /\ FreeTasks(mgr[e]) # {}
  /\ LET n == Len(mgr[e].arrived) + 1
     IN Step(e, onWebRTCOffer(
                  [mgr[e] EXCEPT !.arrived = Append(@, <<"offer", Far(e)>>),
                                 !.ids = Append(@, mgr[Far(e)].sent[k][3][3]),
                                 !.got = @ \cup {k}],
                  Far(e), mgr[Far(e)].sent[k][3][3], n, NewTaskId(mgr[e])))

\* The relay delivers answer k of the far endpoint to e.
RelayAnswer(e, k) ==
  /\ k \in InFlight(Far(e), "answer")
  /\ Len(mgr[e].arrived) < mgr[e].lim.msgs
  /\ FreeTasks(mgr[e]) # {}
  /\ LET n == Len(mgr[e].arrived) + 1
     IN Step(e, onWebRTCAnswer(
                  [mgr[e] EXCEPT !.arrived = Append(@, <<"answer", Far(e)>>),
                                 !.ids = Append(@, mgr[Far(e)].sent[k][3][3]),
                                 !.got = @ \cup {k}],
                  Far(e), mgr[Far(e)].sent[k][3][3], n, NewTaskId(mgr[e])))

PairNext ==
  \/ \E e \in Endpoints, b \in BOOLEAN : CreatePeerCall(e, Far(e), b)
  \/ \E e \in Endpoints : RemovePeerCall(e, Far(e))
  \/ \E e \in Endpoints, k \in 1 .. PairMsgs + 1 : RelayOffer(e, k)
  \/ \E e \in Endpoints, k \in 1 .. PairMsgs + 1 : RelayAnswer(e, k)
  \/ \E e \in Endpoints, t \in TaskIds : Resolve(e, t)
  \/ \E e \in Endpoints, t \in TaskIds : Reject(e, t)
  \/ \E e \in Endpoints, t \in TaskIds : Abandon(e, t)

PairSpec == PairInit /\ [][PairNext]_vars

(* ============================== the room =============================== *)
\* Two participants of a room with their useRoom hooks.  Each endpoint's
\* record is its manager extended by the field `hook`: the hook's view of the
\* store (isHost, room, participants, localStream), whether its manager
\* reference is set (ref), and the user-joined notifications the server has
\* emitted to it that are yet to arrive (announced).  B is in the room from
\* the start, as its host or as a guest; A joins.  Sessions towards other
\* participants of the room are kept under other peerIds and are left out.
Hook(isHost, inRoom) ==
  [ isHost |-> isHost, room |-> inRoom, participants |-> {},
    localStream |-> FALSE, ref |-> FALSE, announced |-> {} ]

RoomInit ==
  \E host \in BOOLEAN :
    mgr = [e \in Endpoints |->
             NewManager(e, {Far(e)}, Limits(RoomMsgs, 0, RoomNotif, 0))
               @@ [hook |-> Hook(e = "B" /\ host, e = "B")]]

\* createPeer as the hook calls it.
HookCreatePeer(m, peerId, isInitiator) ==
  [createPeer(m, peerId, isInitiator, NewTaskId(m))
     EXCEPT !.calls = Append(@, <<"createPeer", peerId, isInitiator,
                                  ReturnsExisting(m, peerId)>>)]

\* The user-joined handler: the participant is added to the room, and a
\* non-initiator session is prepared when the manager reference is set.
onUserJoined(m, user) ==
  LET m1 == [m EXCEPT !.hook.participants = @ \cup {user}]
  IN IF m.hook.ref /\ user # m.self
     THEN HookCreatePeer(m1, user, FALSE)
     ELSE m1

\* The guest's loop over the participants of the room.
RECURSIVE CreateOffers(_, _)
CreateOffers(m, ps) ==
  IF ps = {} THEN m
  ELSE LET p == CHOOSE q \in ps : TRUE
       IN CreateOffers(IF p # m.self THEN HookCreatePeer(m, p, TRUE) ELSE m,
                       ps \ {p})

\* The effect that initializes the manager once user, room and local stream
\* are there: the manager is constructed (its signaling handlers are
\* registered), gets the local stream and the hook's listener, and a guest
\* creates an offer to every participant it knows.
WebRTCInit(m) ==
  LET m1 == onEvent(setLocalStream([m EXCEPT !.hook.ref = TRUE], 1), "cb1")
  IN IF ~m.hook.isHost THEN CreateOffers(m1, m.hook.participants) ELSE m1

\* The server admits e to the room: e gets the participants that are in the
\* room, and user-joined is emitted to each of them.
JoinRoom(e) ==
  /\ ~mgr[e].hook.room
  /\ mgr[Far(e)].hook.room
  /\ mgr' = [mgr EXCEPT ![e].hook.room = TRUE,
                        ![e].hook.isHost = FALSE,
                        ![e].hook.participants = {Far(e)},
                        ![Far(e)].hook.announced = @ \cup {e}]

\* user-joined arrives at e.
UserJoined(e, user) ==
  /\ user \in mgr[e].hook.announced
  /\ Step(e, [onUserJoined(mgr[e], user) EXCEPT !.hook.announced = @ \ {user}])

\* The page starts the camera once the room is set; getUserMedia resolves.
StartCamera(e) ==
  /\ mgr[e].hook.room
  /\ ~mgr[e].hook.localStream
  /\ Step(e, [mgr[e] EXCEPT !.hook.localStream = TRUE])

InitEffect(e) ==
  /\ mgr[e].hook.room
  /\ mgr[e].hook.localStream
  /\ ~mgr[e].hook.ref
  /\ Step(e, WebRTCInit(mgr[e]))

\* The socket delivers to e in the order the server emitted: a message of a
\* participant comes after the user-joined that announced the participant.
Announced(e) == Far(e) \notin mgr[e].hook.announced

RoomOffer(e, k) == Announced(e) /\ mgr[e].hook.ref /\ RelayOffer(e, k)

RoomAnswer(e, k) == Announced(e) /\ mgr[e].hook.ref /\ RelayAnswer(e, k)

\* An offer that arrives before the manager is constructed finds no handler
\* registered with the socket service and is dropped.
OfferDropped(e, k) ==
  /\ Announced(e)
  /\ ~mgr[e].hook.ref
  /\ k \in InFlight(Far(e), "offer")
  /\ Step(e, [mgr[e] EXCEPT !.got = @ \cup {k}])

RoomSettles ==
  \E e \in Endpoints, t \in TaskIds : Resolve(e, t) \/ Reject(e, t)

RoomDelivers ==
  \E e \in Endpoints, k \in 1 .. RoomMsgs + 1 :
    RoomOffer(e, k) \/ RoomAnswer(e, k) \/ OfferDropped(e, k)

RoomNext ==
  \/ \E e \in Endpoints : JoinRoom(e)
  \/ \E e \in Endpoints, u \in Endpoints : UserJoined(e, u)
  \/ \E e \in Endpoints : StartCamera(e)
  \/ \E e \in Endpoints : InitEffect(e)
  \/ \E e \in Endpoints, k \in 1 .. RoomMsgs + 1 : RoomOffer(e, k)
  \/ \E e \in Endpoints, k \in 1 .. RoomMsgs + 1 : RoomAnswer(e, k)
  \/ \E e \in Endpoints, k \in 1 .. RoomMsgs + 1 : OfferDropped(e, k)
  \/ \E e \in Endpoints, t \in TaskIds : Resolve(e, t)
  \/ \E e \in Endpoints, t \in TaskIds : Reject(e, t)
  \/ \E e \in Endpoints, s \in 1 .. MaxSess, cs \in ConnStates :
       ConnectionStateChange(e, s, cs)
  \/ \E e \in Endpoints : TimerFires(e)

RoomSpec == RoomInit /\ [][RoomNext]_vars

\* Every pending capability call settles and every message the server has
\* emitted, user-joined included, is delivered.
RoomFairSpec ==
  /\ RoomSpec
  /\ WF_vars(RoomSettles)
  /\ WF_vars(RoomDelivers)
  /\ \A e \in Endpoints : WF_vars(\E u \in Endpoints : UserJoined(e, u))

(* ====================== at-least-once delivery ========================= *)
\* One manager that receives one offer, one answer and one candidate of a
\* peer, each of which the relay may deliver again at any later point.
DupInit == mgr = [e \in {Self} |->
                    NewManager(e, PeerIds, Limits(DupMsgs, 0, 0, 0))]

HasArrived(e, kind, from) ==
  \E n \in 1 .. Len(mgr[e].arrived) : mgr[e].arrived[n] = <<kind, from>>

FirstOffer(from) == ~HasArrived(Self, "offer", from) /\ DeliverOffer(Self, from)

FirstAnswer(from) == ~HasArrived(Self, "answer", from) /\ DeliverAnswer(Self, from)

FirstCandidate(from) ==
  ~HasArrived(Self, "candidate", from) /\ DeliverCandidate(Self, from)

\* The relay delivers the k-th message that arrived at e once more.
Redeliver(e, k) ==
  /\ k \in 1 .. Len(mgr[e].arrived)
  /\ Len(mgr[e].arrived) < mgr[e].lim.msgs
  /\ FreeTasks(mgr[e]) # {}
  /\ LET kind == mgr[e].arrived[k][1]
         from == mgr[e].arrived[k][2]
         id   == mgr[e].ids[k]
         n    == Len(mgr[e].arrived) + 1
         t    == NewTaskId(mgr[e])
         m1   == [mgr[e] EXCEPT !.arrived = Append(@, <<kind, from>>),
                                !.ids = Append(@, id)]
     IN /\ kind = "offer" => (mgr[e].peers[from] # 0 \/ Len(mgr[e].conns) < MaxSess)
        /\ Step(e, CASE kind = "offer"     -> onWebRTCOffer(m1, from, id, n, t)
                     [] kind = "answer"    -> onWebRTCAnswer(m1, from, id, n, t)
                     [] kind = "candidate" -> onWebRTCIceCandidate(m1, from, id, n, t))

DupNext ==
  \/ \E p \in PeerIds : FirstOffer(p)
  \/ \E p \in PeerIds : FirstAnswer(p)
  \/ \E p \in PeerIds : FirstCandidate(p)
  \/ \E k \in 1 .. DupMsgs : Redeliver(Self, k)
  \/ \E t \in TaskIds : Resolve(Self, t)
  \/ \E t \in TaskIds : Reject(Self, t)

DupSpec == DupInit /\ [][DupNext]_vars

(* ============================== claims ================================= *)
SessionIds == 1 .. Len(mgr[Self].conns)

Live(s) == mgr[Self].conns[s].sig # "closed"

\* C1: at every instant at most one unclosed PeerSession exists per peerId:
\* the collection maps a peerId to at most one session, that session is the
\* only unclosed one of the peerId, and every session that was replaced or
\* removed is closed by the time another session of the peerId exists.
C1_OneLiveSessionPerPeer ==
  /\ \A p \in PeerIds :
       Cardinality({s \in SessionIds : mgr[Self].conns[s].peerId = p /\ Live(s)}) <= 1
  /\ \A s \in SessionIds : Live(s) => mgr[Self].peers[mgr[Self].conns[s].peerId] = s
  /\ \A p \in PeerIds : mgr[Self].peers[p] # 0 =>
       /\ mgr[Self].peers[p] \in SessionIds
       /\ mgr[Self].conns[mgr[Self].peers[p]].peerId = p

\* A session of p1 was replaced: the old one is closed, the new one is in
\* the collection.
C1_Witness ==
  /\ Len(mgr[Self].conns) = 2
  /\ mgr[Self].conns[1].peerId = "p1" /\ mgr[Self].conns[2].peerId = "p1"
  /\ ~Live(1) /\ Live(2)
  /\ mgr[Self].peers["p1"] = 2

\* The step delivers a message of the given kind from peer p.
Arrives(kind, p) ==
  /\ Len(mgr'[Self].arrived) = Len(mgr[Self].arrived) + 1
  /\ mgr'[Self].arrived[Len(mgr'[Self].arrived)] = <<kind, p>>

HasSession(p) == mgr[Self].peers[p] # 0

SessionOf(p) == mgr[Self].conns[mgr[Self].peers[p]]

\* C2: an offer arriving for a session in have-local-offer (glare) is
\* resolved by the session's role: a Responder session rolls its local offer
\* back (and goes on to accept the offer), an Initiator session ignores the
\* offer: no capability call, no handler left running, nothing sent.
C2_GlareResolvedByRole ==
  [][\A p \in PeerIds :
       (HasSession(p) /\ SessionOf(p).sig = "have-local-offer" /\ Arrives("offer", p)) =>
          LET s == mgr[Self].peers[p] IN
          IF SessionOf(p).init
          THEN /\ mgr'[Self].conns[s] = mgr[Self].conns[s]
               /\ mgr'[Self].tasks = mgr[Self].tasks
               /\ mgr'[Self].sent = mgr[Self].sent
          ELSE mgr'[Self].conns[s].log =
                 Append(mgr[Self].conns[s].log, <<"rollback", NoDesc, Len(mgr'[Self].arrived)>>)
    ]_vars

Holds(e) == mgr[e].peers[Far(e)] # 0

Held(e) == mgr[e].conns[mgr[e].peers[Far(e)]]

HasSent(e, kind) ==
  \E k \in 1 .. Len(mgr[e].sent) : mgr[e].sent[k][1] = kind /\ mgr[e].sent[k][2] = Far(e)

HasReceived(e, kind) ==
  \E n \in 1 .. Len(mgr[e].arrived) : mgr[e].arrived[n] = <<kind, Far(e)>>

RolledBack(e) ==
  \E s \in 1 .. Len(mgr[e].conns) : \E i \in 1 .. Len(mgr[e].conns[s].log) :
     mgr[e].conns[s].log[i][1] = "rollback"

Settled(e) ==
  /\ Held(e).sig = "stable"
  /\ Held(e).curLocal # NoDesc
  /\ Held(e).chain = <<>>

\* C3: in a run of two endpoints where A holds an Initiator session towards
\* B, B holds a Responder session towards A, both have sent an offer and
\* each has received the other's, A's negotiation is the one that survives:
\* it is never so that both rolled back, nor that both answered the other's
\* offer, and once both sessions are settled in stable they have agreed on
\* A's offer and B's answer.
C3_InitiatorOfferSurvivesGlare ==
  (/\ DOMAIN mgr = Endpoints
   /\ Holds("A") /\ Held("A").init
   /\ Holds("B") /\ ~Held("B").init
   /\ \A e \in Endpoints : HasSent(e, "offer") /\ HasReceived(e, "offer"))
  =>
  /\ ~(RolledBack("A") /\ RolledBack("B"))
  /\ ~(HasSent("A", "answer") /\ HasSent("B", "answer"))
  /\ (Settled("A") /\ Settled("B")) =>
        /\ Held("A").curLocal[1] = "offer"  /\ Held("A").curLocal[2] = "A"
        /\ Held("B").curRemote = Held("A").curLocal
        /\ Held("B").curLocal[1] = "answer" /\ Held("B").curLocal[2] = "B"
        /\ Held("A").curRemote = Held("B").curLocal

\* C4: an answer is applied only in have-local-offer; an answer that arrives
\* in another state while a remote description exists is discarded: no
\* capability call is made and the session is left as it was.
C4_AnswerOnlyInHaveLocalOffer ==
  [][/\ \A s \in SessionIds :
          (mgr'[Self].conns[s].curRemote # mgr[Self].conns[s].curRemote
             /\ mgr'[Self].conns[s].curRemote # NoDesc
             /\ mgr'[Self].conns[s].curRemote[1] = "answer")
          => mgr[Self].conns[s].sig = "have-local-offer"
     /\ \A p \in PeerIds :
          (/\ HasSession(p) /\ Arrives("answer", p)
           /\ SessionOf(p).sig # "have-local-offer"
           /\ remoteDescription(SessionOf(p)) # NoDesc)
          => /\ mgr'[Self].conns[mgr[Self].peers[p]] = mgr[Self].conns[mgr[Self].peers[p]]
             /\ mgr'[Self].arrays = mgr[Self].arrays
    ]_vars

Range(f) == {f[x] : x \in DOMAIN f}

IsAdd(e) == e[1] = "add"

IsSrd(e) == e[1] = "srd"

\* The add-candidate calls made on session s, in call order (candidate ids).
AddCalls(s) ==
  LET adds == SelectSeq(mgr[Self].conns[s].log, IsAdd)
  IN [k \in 1 .. Len(adds) |-> adds[k][2]]

Increasing(q) == \A i, j \in 1 .. Len(q) : i < j => q[i] < q[j]

NonDecreasing(q) == \A i, j \in 1 .. Len(q) : i < j => q[i] <= q[j]

\* Array objects that were pendingCandidates of a session and were replaced.
Retired(a) == \A s \in SessionIds : mgr[Self].conns[s].pend # a

\* C5: buffered candidates reach add-candidate in the order stored, each
\* exactly once, and only after set-remote-description: in every call log
\* the candidates are strictly increasing in arrival order, every
\* add-candidate call follows a set-remote-description call, and a buffer
\* that a flush has replaced had each of its candidates passed on.
C5_BufferedCandidatesOnceInOrder ==
  /\ \A s \in SessionIds :
       /\ Increasing(AddCalls(s))
       /\ \A k \in 1 .. Len(mgr[Self].conns[s].log) :
            IsAdd(mgr[Self].conns[s].log[k]) =>
              \E j \in 1 .. k - 1 : IsSrd(mgr[Self].conns[s].log[j])
  /\ \A a \in 1 .. Len(mgr[Self].arrays) :
       Retired(a) =>
         \A c \in Range(mgr[Self].arrays[a]) :
           \E s \in SessionIds : c \in Range(AddCalls(s))

\* C6: pendingCandidates of a session is non-empty only while the session
\* has no remote description.
C6_PendingOnlyWithoutRemoteDescription ==
  \A s \in SessionIds :
    (mgr[Self].conns[s].pend # 0 /\ mgr[Self].arrays[mgr[Self].conns[s].pend] # <<>>)
      => remoteDescription(mgr[Self].conns[s]) = NoDesc

\* The arrival numbers of the messages whose set-remote-description calls
\* were made on session s, in call order.
SrdCalls(s) ==
  LET srds == SelectSeq(mgr[Self].conns[s].log, IsSrd)
  IN [k \in 1 .. Len(srds) |-> srds[k][3]]

\* C7: the capability calls caused by the messages of one peer are made in
\* the messages' arrival order: set-remote-description calls among
\* themselves and add-candidate calls among themselves.
C7_CallsInArrivalOrder ==
  \A s \in SessionIds :
    /\ NonDecreasing(SrdCalls(s))
    /\ NonDecreasing(AddCalls(s))

\* The calls the handler of message n made on session s, in call order.
CallsBy(s, n) ==
  LET ByN(e) == e[3] = n
      sel    == SelectSeq(mgr[Self].conns[s].log, ByN)
  IN [k \in 1 .. Len(sel) |-> IF sel[k][1] \in {"srd", "sld"}
                              THEN <<sel[k][1], sel[k][2][1]>>
                              ELSE <<sel[k][1]>>]

\* Position of a call in the sequence of inbound-offer handling.
OfferStep(call) ==
  CASE call = <<"srd", "offer">>  -> 1
    [] call = <<"add">>           -> 2
    [] call = <<"createAnswer">>  -> 3
    [] call = <<"sld", "answer">> -> 4
    [] OTHER                      -> 0

\* set-remote-description, the flush, create-answer, set-local-description:
\* in this order, each of the three calls at most once.
InOfferOrder(calls) ==
  /\ \A k \in 1 .. Len(calls) : OfferStep(calls[k]) # 0
  /\ \A i, j \in 1 .. Len(calls) :
       i < j => /\ OfferStep(calls[i]) <= OfferStep(calls[j])
                /\ OfferStep(calls[i]) = OfferStep(calls[j]) => calls[i] = <<"add">>

\* Session s was opened by the handler of offer n: a Responder session
\* whose first call is the set-remote-description of that offer.
OpenedByOffer(s, n) ==
  /\ ~mgr[Self].conns[s].init
  /\ mgr[Self].conns[s].log # <<>>
  /\ mgr[Self].conns[s].log[1] = <<"srd", Desc("offer", mgr[Self].conns[s].peerId, n), n>>

SentBy(n) == {k \in 1 .. Len(mgr[Self].sent) : mgr[Self].sent[k][4] = n}

OfferStepFails(t, pcs) ==
  LET task == mgr[Self].tasks[t]
      op   == OpOf(mgr[Self], task)
  IN /\ AtHead(mgr[Self], t)
     /\ task.kind = "offer"
     /\ task.pc \in pcs
     /\ mgr'[Self].tasks[t] # task
     /\ \/ ~OpValid(mgr[Self].conns[task.sid], op[1], op[2])
        \/ mgr'[Self].nfail = mgr[Self].nfail + 1

\* C9: when a step of inbound-offer handling fails (glare rollback,
\* set-remote-description, create-answer or set-local-description), the
\* session the handler works on is closed and is no longer in the
\* collection.
C9_FailedOfferRemovesSession ==
  [][\A t \in TaskIds :
       OfferStepFails(t, {"o_rb", "o_srd", "o_ans", "o_sla"}) =>
         /\ mgr'[Self].conns[mgr[Self].tasks[t].sid].sig = "closed"
         /\ mgr'[Self].peers[mgr[Self].tasks[t].from] # mgr[Self].tasks[t].sid
    ]_vars

\* negotiationState of a connection: signalingState, with stable split into
\* New (nothing negotiated yet) and Stable (an offer/answer pair is current).
NegotiationState(c) ==
  CASE c.sig = "closed"            -> "Closed"
    [] c.sig = "have-local-offer"  -> "HaveLocalOffer"
    [] c.sig = "have-remote-offer" -> "HaveRemoteOffer"
    [] c.sig = "stable" ->
         IF c.curLocal = NoDesc /\ c.curRemote = NoDesc THEN "New" ELSE "Stable"

NegStates == {"New", "HaveLocalOffer", "HaveRemoteOffer", "Stable", "Closed", "Failed"}

\* The transitions of section 4.2.
ClaimedTransitions ==
  {<<"New", "HaveLocalOffer">>, <<"New", "HaveRemoteOffer">>,
   <<"HaveLocalOffer", "Stable">>, <<"HaveRemoteOffer", "Stable">>,
   <<"HaveLocalOffer", "New">>, <<"Stable", "HaveLocalOffer">>}
  \cup {<<x, "Closed">> : x \in NegStates} \cup {<<x, "Failed">> : x \in NegStates}

\* The step changes the negotiationState of some session only along T.
StepsWithin(T) ==
  \A s \in SessionIds :
    LET a == NegotiationState(mgr[Self].conns[s])
        b == NegotiationState(mgr'[Self].conns[s])
    IN a # b => <<a, b>> \in T

\* C10: negotiationState changes only by the transitions of section 4.2.
C10_OnlyClaimedTransitions == [][StepsWithin(ClaimedTransitions)]_vars

\* C11: an offer arriving for a session in have-remote-offer (a duplicate
\* of the offer being answered) is a no-op: no capability call is made (the
\* connection with its call log is unchanged), no handler is left running
\* and nothing is sent.
C11_DuplicateOfferIsNoOp ==
  [][\A p \in PeerIds :
       (HasSession(p) /\ SessionOf(p).sig = "have-remote-offer" /\ Arrives("offer", p)) =>
          /\ mgr'[Self].conns = mgr[Self].conns
          /\ mgr'[Self].tasks = mgr[Self].tasks
          /\ mgr'[Self].sent = mgr[Self].sent
    ]_vars

Quiet(e) == \A t \in TaskIds : mgr[e].tasks[t].kind = "idle"

\* C12: under at-least-once delivery (every message possibly delivered
\* again, no capability call failing for a reason of its own) no session is
\* ever removed or closed, and once the handlers have run to completion the
\* session of an offer is Stable, the state a single delivery leaves it in.
C12_RedeliveryIsHarmless ==
  /\ \A s \in SessionIds : Live(s)
  /\ mgr[Self].events = <<>>
  /\ \A p \in PeerIds :
       (Quiet(Self) /\ HasArrived(Self, "offer", p)) =>
          /\ HasSession(p)
          /\ NegotiationState(SessionOf(p)) = "Stable"

\* The session is healthy (stable and connected) or not yet ready (open, its
\* connectivity new, connecting or connected).
HealthyOrNotYetReady(c) ==
  c.sig # "closed" /\ c.cs \in {"new", "connecting", "connected"}

\* C13: createPeer for a peerId whose session is healthy or merely not yet
\* ready changes nothing, whatever isInitiator is: the collection and its
\* session, the connections, the handlers in flight, what was sent and the
\* events emitted all stay as they are.
C13_CreatePeerReturnsExisting ==
  \A p \in PeerIds :
    (HasSession(p) /\ HealthyOrNotYetReady(SessionOf(p))) =>
       \A b \in BOOLEAN, t \in TaskIds :
          createPeer(mgr[Self], p, b, t) = mgr[Self]

\* createPeer(p1, true) installed a session and a second createPeer(p1, true)
\* found it not yet ready and returned it.
C13_Witness ==
  /\ Len(mgr[Self].calls) = 2
  /\ \A k \in 1 .. 2 : mgr[Self].calls[k] = <<"createPeer", "p1", TRUE, k = 2>>
  /\ HasSession("p1") /\ HealthyOrNotYetReady(SessionOf("p1"))

\* The step is a call createPeer(p, b) of the application.
CreatePeerCalled(p, b) ==
  /\ Len(mgr'[Self].calls) = Len(mgr[Self].calls) + 1
  /\ LET call == mgr'[Self].calls[Len(mgr'[Self].calls)]
     IN call[1] = "createPeer" /\ call[2] = p /\ call[3] = b

\* Stale in the words of the claim: closed, or failed.
ClosedOrFailed(c) == c.sig = "closed" \/ c.cs \in {"closed", "failed"}

\* C14: createPeer on a stale session (closed or failed) closes the old
\* connection, emits one peerRemoved and installs a fresh session under the
\* same peerId, whose offer is started when isInitiator; createPeer on a
\* session that is neither closed nor failed leaves that session in the
\* collection, open.
C14_CreatePeerReplacesOnlyStale ==
  [][\A p \in PeerIds, b \in BOOLEAN :
       (CreatePeerCalled(p, b) /\ HasSession(p)) =>
          LET s == mgr[Self].peers[p]
              n == mgr'[Self].peers[p]
          IN IF ClosedOrFailed(SessionOf(p))
             THEN /\ mgr'[Self].conns[s].sig = "closed"
                  /\ mgr'[Self].events = Append(mgr[Self].events, <<"peerRemoved", p>>)
                  /\ n = Len(mgr[Self].conns) + 1
                  /\ mgr'[Self].conns[n].sig = "stable"
                  /\ mgr'[Self].conns[n].init = b
                  /\ mgr'[Self].conns[n].log =
                       IF b THEN << <<"createOffer", NoDesc, 0>> >> ELSE <<>>
             ELSE /\ n = s
                  /\ mgr'[Self].conns[s].sig # "closed"
                  /\ mgr'[Self].events = mgr[Self].events
    ]_vars

\* The step is a call removePeer(p) of the application.
RemovePeerCalled(p) ==
  /\ Len(mgr'[Self].calls) = Len(mgr[Self].calls) + 1
  /\ LET call == mgr'[Self].calls[Len(mgr'[Self].calls)]
     IN call[1] = "removePeer" /\ call[2] = p

\* C15: removePeer on a present peer closes its connection and its data
\* channel, then deletes the entry, then emits one peerRemoved for it, in
\* this order; removePeer on an absent peer changes nothing and emits
\* nothing.
C15_RemovePeerOrder ==
  [][\A p \in PeerIds :
       RemovePeerCalled(p) =>
          LET s == mgr[Self].peers[p]
              after == mgr'[Self]
          IN IF s # 0
             THEN /\ after.conns[s].sig = "closed"
                  /\ mgr[Self].conns[s].dc # "none" => after.conns[s].dc = "closed"
                  /\ after.peers[p] = 0
                  /\ after.events = Append(mgr[Self].events, <<"peerRemoved", p>>)
                  /\ after.steps =
                       << <<"close", s>> >>
                       \o (IF mgr[Self].conns[s].dc # "none"
                           THEN << <<"closeChannel", s>> >> ELSE <<>>)
                       \o << <<"delete", p>>, <<"emit", p>> >>
             ELSE after = [mgr[Self] EXCEPT !.napi = after.napi, !.calls = after.calls]
    ]_vars

\* removePeer was called on a session that holds a data channel.
C15_Witness ==
  /\ mgr[Self].calls = << <<"createPeer", "p1", TRUE, FALSE>>,
                          <<"removePeer", "p1", TRUE>> >>
  /\ Len(mgr[Self].steps) = 4

\* C16: once a peerRemoved event for a peerId has been delivered to a
\* listener, no later event that refers to that peerId (stream, chat or
\* another peerRemoved) is delivered.
C16_NoEventAfterPeerRemoved ==
  \A i, j \in 1 .. Len(mgr[Self].delivered) :
     (/\ mgr[Self].delivered[i][3] < mgr[Self].delivered[j][3]
      /\ mgr[Self].delivered[i][2][1] = "peerRemoved") =>
        mgr[Self].delivered[j][2][2] # mgr[Self].delivered[i][2][2]

\* The latest call of the application is a removePeer(p) that removed the
\* session of p, and p has no session.
JustRemoved(p) ==
  /\ mgr[Self].calls # <<>>
  /\ mgr[Self].calls[Len(mgr[Self].calls)] = <<"removePeer", p, TRUE>>
  /\ ~HasSession(p)

\* C17: after removePeer(p), an offer, answer or candidate arriving from p
\* is a no-op: apart from the record of the arrival the manager is
\* unchanged (no session, no capability call, nothing sent, no event).
C17_MessageAfterRemoveIsNoOp ==
  [][\A p \in PeerIds, kind \in {"offer", "answer", "candidate"} :
       (JustRemoved(p) /\ Arrives(kind, p)) =>
          mgr'[Self] = [mgr[Self] EXCEPT !.arrived = mgr'[Self].arrived,
                                         !.ids = mgr'[Self].ids]
    ]_vars

\* Handler invocation t is suspended at a call on a connection that has
\* been closed: its session was removed while the exchange was in flight.
SuspendedOnRemoved(t) ==
  /\ mgr[Self].tasks[t].kind \in {"create", "offer", "answer"}
  /\ mgr[Self].conns[mgr[Self].tasks[t].sid].sig = "closed"

\* C18: when a handler whose session was removed while it was suspended
\* resumes, by success or by failure, it has no further effect: nothing is
\* sent, no capability call is made (no flush), no event is emitted and the
\* collection is left as it is.
C18_LateCompletionHasNoEffect ==
  [][\A t \in TaskIds :
       (SuspendedOnRemoved(t) /\ mgr'[Self].tasks[t] # mgr[Self].tasks[t]) =>
          /\ mgr'[Self].sent = mgr[Self].sent
          /\ mgr'[Self].events = mgr[Self].events
          /\ mgr'[Self].peers = mgr[Self].peers
          /\ \A s \in SessionIds : mgr'[Self].conns[s].log = mgr[Self].conns[s].log
    ]_vars

\* The step is a call cleanup() of the application.
CleanupCalled ==
  /\ Len(mgr'[Self].calls) = Len(mgr[Self].calls) + 1
  /\ mgr'[Self].calls[Len(mgr'[Self].calls)] = <<"cleanup">>

\* C19: after cleanup() the collection is empty, every connection and data
\* channel is closed, the manager holds no local stream and the listener
\* list is empty.
C19_CleanupLeavesNothing ==
  [][CleanupCalled =>
       /\ \A p \in PeerIds : mgr'[Self].peers[p] = 0
       /\ \A s \in SessionIds :
            mgr'[Self].conns[s].sig = "closed" /\ mgr'[Self].conns[s].dc # "open"
       /\ mgr'[Self].localStream = 0
       /\ mgr'[Self].listeners = <<>>
    ]_vars

\* The manager is as a cleanup() left it: cleanup is the latest call of the
\* application, and no session or listener has come since.
AsCleanupLeftIt ==
  /\ mgr[Self].calls # <<>>
  /\ mgr[Self].calls[Len(mgr[Self].calls)] = <<"cleanup">>
  /\ InCollection(mgr[Self]) = {}
  /\ mgr[Self].listeners = <<>>

\* C20: a cleanup() emits at most one peerRemoved per peerId, and a second
\* cleanup() directly after the first changes nothing and emits nothing, so
\* that no peerId gets more than one peerRemoved over both calls.
C20_CleanupTwice ==
  [][CleanupCalled =>
       /\ LET new == SubSeq(mgr'[Self].events, Len(mgr[Self].events) + 1,
                            Len(mgr'[Self].events))
          IN \A p \in PeerIds :
               Cardinality({i \in 1 .. Len(new) : new[i] = <<"peerRemoved", p>>}) <= 1
       /\ AsCleanupLeftIt =>
            mgr'[Self] = [mgr[Self] EXCEPT !.napi = mgr'[Self].napi,
                                           !.calls = mgr'[Self].calls]
    ]_vars

\* cleanup() was called twice in a row on a manager that had a session.
C20_Witness ==
  mgr[Self].calls = << <<"createPeer", "p1", TRUE, FALSE>>, <<"cleanup">>, <<"cleanup">> >>

\* C21: after any sequence of setLocalStream and createPeer calls every
\* connection has at most one sender per track kind, and a setLocalStream
\* call leaves this.localStream at the stream it was given.
SendersOfKind(c, kind) == {i \in 1 .. Len(c.senders) : c.senders[i][1] = kind}

C21_OneSenderPerKind ==
  /\ \A s \in 1 .. Len(mgr[Self].conns) : \A kind \in {"audio", "video"} :
        Cardinality(SendersOfKind(mgr[Self].conns[s], kind)) <= 1
  /\ LET c == mgr[Self].calls
     IN (c # <<>> /\ c[Len(c)][1] = "setLocalStream")
          => mgr[Self].localStream = c[Len(c)][2]

\* Witness: a session created with the one-track stream got the
\* three-track stream afterwards: its video sender was replaced and an
\* audio sender was added.
C21_Witness ==
  /\ Len(mgr[Self].calls) = 3
  /\ mgr[Self].calls[1] = <<"setLocalStream", 1>>
  /\ mgr[Self].calls[2][1] = "createPeer"
  /\ mgr[Self].calls[3] = <<"setLocalStream", 2>>
  /\ \E s \in InCollection(mgr[Self]) :
        /\ Len(mgr[Self].conns[s].senders) = 2
        /\ mgr[Self].conns[s].senders[1] = <<"video", 2, 3>>
        /\ mgr[Self].conns[s].senders[2] = <<"audio", 2, 1>>

\* C22: a track that setLocalStream puts on an offering session whose first
\* offer round trip is not complete is eventually carried by an offer that
\* is sent to the peer (or the session is gone).
OfferSent(s) ==
  \E i \in 1 .. Len(mgr[Self].sent) :
     /\ mgr[Self].sent[i][1] = "offer"
     /\ mgr[Self].sent[i][3] = Desc("offer", Self, s)

Uncarried(s) ==
  /\ s \in InCollection(mgr[Self])
  /\ mgr[Self].conns[s].init
  /\ mgr[Self].conns[s].curRemote = NoDesc
  /\ ~(SenderKinds(mgr[Self].conns[s]) \subseteq mgr[Self].conns[s].carried)
  /\ mgr[Self].calls[Len(mgr[Self].calls)][1] = "setLocalStream"

Renegotiated(s) ==
  \/ s \notin InCollection(mgr[Self])
  \/ /\ SenderKinds(mgr[Self].conns[s]) \subseteq mgr[Self].conns[s].carried
     /\ OfferSent(s)

C22_LateTrackIsRenegotiated ==
  \A s \in 1 .. MaxSess : Uncarried(s) ~> Renegotiated(s)

\* C23: a restart timer whose connection has been connected again since the
\* timer was set issues no restart when it fires, whatever the connection
\* state is by then.
TimerFired == mgr[Self].timers # <<>> /\ mgr'[Self].timers = Tail(mgr[Self].timers)

RestartIssued(s) ==
  /\ s \in 1 .. Len(mgr[Self].conns)
  /\ mgr'[Self].conns[s].restarts # mgr[Self].conns[s].restarts

C23_RecoveredTimerIssuesNoRestart ==
  [][(TimerFired /\ Head(mgr[Self].timers).recovered)
       => \A s \in 1 .. MaxSess : ~RestartIssued(s)]_vars

\* C24: at every instant at most one restart timer is pending per peer.
TimersOf(p) ==
  {i \in 1 .. Len(mgr[Self].timers) :
     mgr[Self].conns[mgr[Self].timers[i].sid].peerId = p}

C24_OneTimerPerPeer == \A p \in PeerIds : Cardinality(TimersOf(p)) <= 1

\* C25: a restart is issued only by a timer that fires while its session is
\* still the peer's entry of the collection, its connection state is
\* disconnected or failed and its signaling state is stable, and it restarts
\* that session once; a timer that fires in the middle of a negotiation
\* issues no restart and leaves no timer behind.
TimerGone == Len(mgr'[Self].timers) < Len(mgr[Self].timers)

RestartIssuedWhenDue ==
  \A s \in 1 .. MaxSess :
    RestartIssued(s) =>
      /\ TimerGone
      /\ Head(mgr[Self].timers).sid = s
      /\ mgr[Self].peers[mgr[Self].conns[s].peerId] = s
      /\ mgr[Self].conns[s].cs \in {"disconnected", "failed"}
      /\ mgr[Self].conns[s].sig = "stable"
      /\ mgr'[Self].conns[s].restarts = mgr[Self].conns[s].restarts + 1

RestartDroppedMidNegotiation ==
  (TimerGone /\ mgr[Self].conns[Head(mgr[Self].timers).sid].sig # "stable") =>
    /\ \A s \in 1 .. MaxSess : ~RestartIssued(s)
    /\ mgr'[Self].timers = Tail(mgr[Self].timers)
    /\ mgr'[Self].tasks = mgr[Self].tasks

C25_RestartOnlyWhenStable ==
  [][RestartIssuedWhenDue /\ RestartDroppedMidNegotiation]_vars

\* Witness: a restart was issued for a session, and a timer has fired for
\* a session in the middle of a negotiation without one.
C25_Witness ==
  /\ Len(mgr[Self].conns) = 2
  /\ mgr[Self].conns[1].restarts = 1
  /\ mgr[Self].conns[2].sig = "have-local-offer"
  /\ mgr[Self].conns[2].cs = "failed"
  /\ mgr[Self].conns[2].restarts = 0
  /\ mgr[Self].timers = <<>>

\* C26: a notification of disconnected or failed and a restart timer that
\* fires remove no session and emit nothing, and a session that is
\* disconnected or failed leaves the collection only by a removePeer call or
\* a cleanup call of the application (a closed notification apart).
WentDown(s) ==
  /\ s \in 1 .. Len(mgr[Self].conns)
  /\ mgr'[Self].conns[s].cs \in {"disconnected", "failed"}
  /\ mgr'[Self].conns[s].cs # mgr[Self].conns[s].cs

Down(s) ==
  /\ s \in InCollection(mgr[Self])
  /\ mgr[Self].conns[s].cs \in {"disconnected", "failed"}

Departure ==
  /\ Len(mgr'[Self].calls) = Len(mgr[Self].calls) + 1
  /\ mgr'[Self].calls[Len(mgr'[Self].calls)][1] \in {"removePeer", "cleanup"}

C26_DownSessionStaysUntilRemoved ==
  [][/\ ((\E s \in 1 .. MaxSess : WentDown(s)) \/ TimerGone)
         => /\ mgr'[Self].peers = mgr[Self].peers
            /\ mgr'[Self].events = mgr[Self].events
     /\ \A s \in 1 .. MaxSess :
          (Down(s) /\ s \notin InCollection(mgr'[Self])) => Departure]_vars

\* C27: the listeners called for an event are listeners of the list as it
\* was when the event was emitted, called in the order of that list: no
\* listener that was subscribed while the event was being delivered is
\* called for it.
InvokedFor(n) ==
  LET d == SelectSeq(mgr[Self].delivered, LAMBDA x : x[3] = n)
  IN [i \in 1 .. Len(d) |-> d[i][1]]

RECURSIVE IsSubSeq(_, _)
IsSubSeq(a, b) ==
  IF a = <<>> THEN TRUE
  ELSE IF b = <<>> THEN FALSE
  ELSE IF Head(a) = Head(b) THEN IsSubSeq(Tail(a), Tail(b))
  ELSE IsSubSeq(a, Tail(b))

C27_DeliveryInRegistrationOrder ==
  \A n \in 1 .. Len(mgr[Self].events) : IsSubSeq(InvokedFor(n), mgr[Self].snaps[n])

\* C28: every listener registered when an event is emitted is called
\* exactly once for it, whatever the listeners subscribe or unsubscribe
\* while it is delivered.
Count(seq, x) == Cardinality({i \in 1 .. Len(seq) : seq[i] = x})

C28_EveryListenerOnce ==
  \A n \in 1 .. Len(mgr[Self].events) : \A cb \in AllCallbacks :
     Count(InvokedFor(n), cb) = Count(mgr[Self].snaps[n], cb)

\* C29: every offer or answer that was set as local description and every
\* candidate that was gathered has been sent exactly once, to the peer of
\* the session it belongs to.
SendsOf(x) ==
  {i \in 1 .. Len(mgr[Self].sent) :
     <<mgr[Self].sent[i][1], mgr[Self].sent[i][2], mgr[Self].sent[i][3]>> = x}

C29_OneSendPerProduction ==
  \A i \in 1 .. Len(mgr[Self].made) :
     Cardinality(SendsOf(mgr[Self].made[i]))
       = Cardinality({j \in 1 .. Len(mgr[Self].made) : mgr[Self].made[j] = mgr[Self].made[i]})

\* C30: when a call on the connection of peer A fails (a call a handler or
\* createPeer awaits is rejected, restartIce throws, or replaceTrack is
\* rejected in setLocalStream), the session of every other peer B and
\* this.localStream are what they would be without the failure: unchanged,
\* or, for setLocalStream, updated with the tracks of the new stream.
PeerOf(sid) == mgr[Self].conns[sid].peerId

FailsOn(A) ==
  \/ \E t \in TaskIds :
        /\ mgr'[Self].tasks[t] # mgr[Self].tasks[t]
        /\ AtHead(mgr[Self], t)
        /\ PeerOf(mgr[Self].tasks[t].sid) = A
        /\ Reject(Self, t)
  \/ /\ mgr'[Self].nfail # mgr[Self].nfail
     /\ mgr'[Self].napi = mgr[Self].napi
     /\ RestartFails(Self)
     /\ PeerOf(Head(mgr[Self].timers).sid) = A

Kept(B) ==
  /\ mgr'[Self].peers[B] = mgr[Self].peers[B]
  /\ mgr[Self].peers[B] # 0 =>
        mgr'[Self].conns[mgr[Self].peers[B]] = mgr[Self].conns[mgr[Self].peers[B]]
  /\ mgr'[Self].localStream = mgr[Self].localStream
  /\ mgr'[Self].stopped = mgr[Self].stopped

SweepFailsOn(A, stream, failing) ==
  /\ mgr'[Self].napi # mgr[Self].napi
  /\ mgr'[Self].nfail # mgr[Self].nfail
  /\ failing \subseteq InCollection(mgr[Self])
  /\ \A s \in failing : PeerOf(s) = A
  /\ SetLocalStreamFails(Self, stream, failing)

Updated(B, stream) ==
  /\ mgr'[Self].peers[B] = mgr[Self].peers[B]
  /\ mgr[Self].peers[B] # 0 =>
        mgr'[Self].conns[mgr[Self].peers[B]] =
          [mgr[Self].conns[mgr[Self].peers[B]] EXCEPT
             !.senders = ReplaceOrAdd(@, getTracks(stream), TRUE)]
  /\ mgr'[Self].localStream = stream
  /\ mgr'[Self].stopped = mgr[Self].stopped

C30_FailureStaysWithItsPeer ==
  [][\A A \in TwoPeers : \A B \in TwoPeers \ {A} :
       /\ FailsOn(A) => Kept(B)
       /\ \A k \in 1 .. MaxStreams, f \in SUBSET (1 .. MaxSess) :
            SweepFailsOn(A, k, f) => Updated(B, k)]_vars

\* Witness: replaceTrack was rejected on the connection of one peer during
\* setLocalStream, and the connection of the other peer carries the tracks
\* of the new stream while the first still carries the old one.
C30_Witness ==
  /\ mgr[Self].calls # <<>>
  /\ LET c == mgr[Self].calls[Len(mgr[Self].calls)]
     IN /\ c[1] = "setLocalStream"
        /\ Len(c) = 3
        /\ c[2] = 2
        /\ c[3] = {1}
  /\ \A p \in TwoPeers : mgr[Self].peers[p] # 0
  /\ Len(mgr[Self].conns) = 2
  /\ mgr[Self].conns[1].senders = <<<<"video", 1, 1>>, <<"audio", 2, 1>>>>
  /\ mgr[Self].conns[2].senders = <<<<"video", 2, 3>>, <<"audio", 2, 1>>>>
  /\ mgr[Self].localStream = 2

\* C31: when setRemoteDescription (of an offer or of an answer) or
\* addIceCandidate is rejected for a peer whose session is in the
\* collection, the session is removed: its connection is closed, its entry
\* is deleted and peerRemoved is emitted.
RejectedFor(t, pcs) ==
  /\ AtHead(mgr[Self], t)
  /\ mgr[Self].tasks[t].pc \in pcs
  /\ mgr[Self].peers[mgr[Self].tasks[t].from] = mgr[Self].tasks[t].sid
  /\ Reject(Self, t)

SessionRemoved(t) ==
  LET p   == mgr[Self].tasks[t].from
      sid == mgr[Self].tasks[t].sid
  IN /\ mgr'[Self].peers[p] = 0
     /\ mgr'[Self].conns[sid].sig = "closed"
     /\ mgr'[Self].events = Append(mgr[Self].events, <<"peerRemoved", p>>)

C31_RejectionRemovesSession ==
  [][\A t \in TaskIds :
       RejectedFor(t, {"o_srd", "a_srd", "k_add"}) => SessionRemoved(t)]_vars

\* C32: when addIceCandidate is rejected for a buffered candidate during a
\* flush on an open connection, the flush goes on with the next buffered
\* candidate; after the last one the session has a new, empty buffer and
\* the handler carries on: the offer handler with createAnswer, the answer
\* handler to its end.
FlushRejected(t) ==
  /\ AtHead(mgr[Self], t)
  /\ mgr[Self].tasks[t].pc \in {"o_flush", "a_flush"}
  /\ mgr[Self].conns[mgr[Self].tasks[t].sid].sig # "closed"
  /\ Reject(Self, t)

FlushGoesOn(t) ==
  LET task == mgr[Self].tasks[t]
      arr  == mgr[Self].arrays[task.arr]
      j    == NextIdx(arr, task.i + 1)
      c    == mgr'[Self].conns[task.sid]
  IN IF j <= Len(arr)
     THEN /\ mgr'[Self].tasks[t].pc = task.pc
          /\ mgr'[Self].tasks[t].i = j
          /\ c.log = Append(mgr[Self].conns[task.sid].log, <<"add", arr[j], task.n>>)
     ELSE /\ mgr'[Self].arrays[c.pend] = <<>>
          /\ IF task.kind = "offer"
             THEN /\ mgr'[Self].tasks[t].pc = "o_ans"
                  /\ c.log = Append(mgr[Self].conns[task.sid].log,
                                     <<"createAnswer", NoDesc, task.n>>)
             ELSE mgr'[Self].tasks[t] = IdleTask

C32_FlushSurvivesFailure ==
  [][\A t \in TaskIds : FlushRejected(t) => FlushGoesOn(t)]_vars

\* Witness: two candidates were buffered before the offer came; one call
\* failed, both candidates were handed to addIceCandidate and the answer
\* was sent.
C32_Witness ==
  /\ mgr[Self].arrived = <<<<"candidate", "p1">>, <<"candidate", "p1">>, <<"offer", "p1">>>>
  /\ mgr[Self].nfail = 1
  /\ \E s \in InCollection(mgr[Self]) :
        /\ \E i, j \in 1 .. Len(mgr[Self].conns[s].log) :
              /\ i < j
              /\ mgr[Self].conns[s].log[i][1] = "add"
              /\ mgr[Self].conns[s].log[j][1] = "add"
        /\ mgr[Self].arrays[mgr[Self].conns[s].pend] = <<>>
  /\ \E i \in 1 .. Len(mgr[Self].sent) : mgr[Self].sent[i][1] = "answer"

\* C33: no session of the collection has a sender that carries a track of a
\* stream whose tracks were stopped.
C33_NoStoppedTrackAttached ==
  \A s \in InCollection(mgr[Self]) :
     \A i \in 1 .. Len(mgr[Self].conns[s].senders) :
        mgr[Self].conns[s].senders[i][2] \notin mgr[Self].stopped

\* C34: an answer or a candidate that arrives from a peer without a session
\* changes nothing but the record of its arrival: no session, no buffered
\* candidate, no call on a connection, no send, no event, no handler left
\* running.
Orphan(p) ==
  /\ Len(mgr'[Self].arrived) = Len(mgr[Self].arrived) + 1
  /\ mgr'[Self].arrived[Len(mgr'[Self].arrived)] \in {<<"answer", p>>, <<"candidate", p>>}
  /\ mgr[Self].peers[p] = 0

C34_OrphanMessageIsDiscarded ==
  [][\A p \in PeerIds :
       Orphan(p) => mgr'[Self] = [mgr[Self] EXCEPT !.arrived = mgr'[Self].arrived,
                                                  !.ids = mgr'[Self].ids]]_vars

\* Witness: a candidate came after the peer's session had been removed, and
\* nothing was kept of it.
C34_Witness ==
  /\ mgr[Self].arrived = <<<<"candidate", "p1">>>>
  /\ Len(mgr[Self].conns) = 1
  /\ mgr[Self].conns[1].sig = "closed"
  /\ mgr[Self].conns[1].log = <<>>
  /\ mgr[Self].peers["p1"] = 0
  /\ mgr[Self].arrays = <<>>
  /\ mgr[Self].sent = <<>>

\* C35: a well-formed message that arrives on a data channel of a session
\* of the collection, be it the channel createPeer made or the channel the
\* remote side opened, is emitted as one chat event; a malformed one emits
\* nothing and changes nothing.
MessageOn(s, ok) ==
  /\ s \in InCollection(mgr[Self])
  /\ OnMessage(Self, s, ok) \/ OnLocalMessage(Self, s, ok)

C35_ChannelMessageIsEmitted ==
  [][\A s \in 1 .. MaxSess :
       /\ MessageOn(s, TRUE) =>
            mgr'[Self].events = Append(mgr[Self].events, <<"chat", PeerOf(s)>>)
       /\ (MessageOn(s, FALSE) /\ ~MessageOn(s, TRUE)) =>
            mgr'[Self] = [mgr[Self] EXCEPT !.nnotif = @ + 1]]_vars

\* C36: after a restart has been issued for a session of the collection
\* that has no offer of its own under way, the session eventually has a
\* fresh local offer (it is in have-local-offer), or it is gone.
OfferUnderWay(s) ==
  \E t \in TaskIds : /\ mgr[Self].tasks[t].kind = "create"
                     /\ mgr[Self].tasks[t].sid = s

RestartIssuedFor(s) ==
  /\ s \in InCollection(mgr[Self])
  /\ mgr[Self].conns[s].restarts >= 1
  /\ mgr[Self].conns[s].sig = "stable"
  /\ ~OfferUnderWay(s)

FreshOffer(s) ==
  \/ s \notin InCollection(mgr[Self])
  \/ mgr[Self].conns[s].sig = "have-local-offer"

C36_RestartLeadsToOffer ==
  \A s \in 1 .. MaxSess : RestartIssuedFor(s) ~> FreshOffer(s)

\* Handler invocation t, suspended in createPeer's offer creation or in the
\* handling of an inbound offer, works on a session that has been removed,
\* and a new session for the same peerId has been created since.
Superseded(t) ==
  LET task == mgr[Self].tasks[t]
  IN /\ task.kind \in {"create", "offer"}
     /\ AtHead(mgr[Self], t)
     /\ mgr[Self].conns[task.sid].sig = "closed"
     /\ mgr[Self].peers[task.from] # 0
     /\ mgr[Self].peers[task.from] # task.sid

NewSessionStays(t) ==
  LET p   == mgr[Self].tasks[t].from
      new == mgr[Self].peers[p]
  IN /\ mgr'[Self].peers[p] = new
     /\ mgr'[Self].conns[new].sig = mgr[Self].conns[new].sig
     /\ mgr'[Self].conns[new].log = mgr[Self].conns[new].log

\* C37: a failure that completes late, in createPeer's offer creation or in
\* the handling of an inbound offer, for a session that was removed and
\* replaced by a new session for the same peerId, leaves the new session in
\* the collection, open and unchanged.
C37_LateFailureSparesNewSession ==
  [][\A t \in TaskIds :
       (Superseded(t) /\ Reject(Self, t)) => NewSessionStays(t)]_vars

\* cleanup() was the application's last call: the manager is torn down and
\* has not been used since.
TornDown ==
  /\ mgr[Self].calls # <<>>
  /\ mgr[Self].calls[Len(mgr[Self].calls)] = <<"cleanup">>

\* The step is the arrival of a signaling message.
Arrival == Len(mgr'[Self].arrived) = Len(mgr[Self].arrived) + 1

\* C38: a signaling message that arrives after cleanup() has no effect: no
\* session is created, no capability call is made, nothing is sent, and the
\* collection stays empty.
C38_NothingAfterTeardown ==
  [][(TornDown /\ Arrival) =>
       /\ Len(mgr'[Self].conns) = Len(mgr[Self].conns)
       /\ InCollection(mgr'[Self]) = {}
       /\ mgr'[Self].sent = mgr[Self].sent
       /\ \A s \in 1 .. Len(mgr[Self].conns) :
             mgr'[Self].conns[s].log = mgr[Self].conns[s].log
    ]_vars

\* The session endpoint e holds for the other participant, 0 if none.
RoomSession(e) == mgr[e].peers[Far(e)]

\* Both managers are initialized, the guest that joined holds an initiator
\* session and the participant that was in the room a responder session.
GuestInitiates ==
  /\ mgr["A"].hook.ref /\ mgr["B"].hook.ref
  /\ RoomSession("A") # 0 /\ mgr["A"].conns[RoomSession("A")].init
  /\ RoomSession("B") # 0 /\ ~mgr["B"].conns[RoomSession("B")].init

\* The messages of a kind the two endpoints have sent.
Exchanged(kind) ==
  {<<e, k>> \in Endpoints \X (1 .. 2 * MaxSess) :
     k <= Len(mgr[e].sent) /\ mgr[e].sent[k][1] = kind}

Negotiated(e) ==
  /\ RoomSession(e) # 0
  /\ mgr[e].conns[RoomSession(e)].sig = "stable"
  /\ mgr[e].conns[RoomSession(e)].curLocal # NoDesc
  /\ mgr[e].conns[RoomSession(e)].curRemote # NoDesc

BothStable ==
  /\ Negotiated("A") /\ Negotiated("B")
  /\ Cardinality(Exchanged("offer")) = 1
  /\ Cardinality(Exchanged("answer")) = 1
  /\ InFlight("A", "offer") = {} /\ InFlight("B", "answer") = {}

\* C39: when both managers are initialized, the guest holds an initiator
\* session and the existing participant a responder session, then, every
\* message being delivered and every capability call settling, both sessions
\* reach stable with one offer and one answer exchanged between them.
C39_JoinReachesStable == GuestInitiates ~> BothStable

C39_Witness ==
  /\ BothStable
  /\ mgr["A"].conns[RoomSession("A")].init
  /\ ~mgr["B"].conns[RoomSession("B")].init
  /\ mgr["A"].conns[RoomSession("A")].curRemote = mgr["B"].conns[RoomSession("B")].curLocal
  /\ mgr["B"].conns[RoomSession("B")].curRemote = mgr["A"].conns[RoomSession("A")].curLocal

\* Endpoint e has called createPeer(peer, true) for the other participant.
Initiated(e) ==
  \E i \in 1 .. Len(mgr[e].calls) :
    /\ mgr[e].calls[i][1] = "createPeer"
    /\ mgr[e].calls[i][2] = Far(e)
    /\ mgr[e].calls[i][3]

\* Endpoint e has an offer of its own outstanding to the other participant.
OfferOutstanding(e) ==
  LET s == mgr[e].peers[Far(e)]
  IN /\ s # 0
     /\ mgr[e].conns[s].sig = "have-local-offer"

\* C40: of the two participants of a pair only one initiates, the one that
\* joined; the two never have offers outstanding to each other at the same
\* time.
C40_OneSideInitiates ==
  /\ ~(Initiated("A") /\ Initiated("B"))
  /\ ~(OfferOutstanding("A") /\ OfferOutstanding("B"))


====
